---- MODULE Spec2Model ----
(***************************************************************************)
(* The event-driven backtesting engine of thats_my_quant: the Portfolio    *)
(* ledger (src/backtester/portfolio.py), the RoundTrip and Transaction     *)
(* records, TransactionCost, the ExitRule family, Strategy signal          *)
(* generation and the Backtester daily loop.                               *)
(*                                                                         *)
(* Numbers.  The code computes in floats; the model computes the same      *)
(* expressions exactly, on integer grids:                                  *)
(*   shares   in units of 1/ShareScale share,                              *)
(*   prices   in whole dollars,                                            *)
(*   slippage as slippage_pct/SlipDen,                                     *)
(*   money    in units of 1/(ShareScale*SlipDen) dollar (Dollar units per  *)
(*            dollar), so that shares*price*(1 +- slippage) +- commission  *)
(*            is an integer,                                               *)
(*   percentages of exit rules as n/PctDen, portions as n/PortionDen.      *)
(* Quotients (average_entry_price, realized P&L) are kept as num/den.      *)
(***************************************************************************)
EXTENDS Integers, Sequences, FiniteSets, TLC

\* ------------------------------------------------------------------ grids
ShareScale == 4
SlipDen == 10
Dollar == ShareScale * SlipDen
PctDen == 100
PortionDen == 4

\* ----------------------------------------------------------------- bounds
\* the ledger client stops calling once the log holds MaxTxns transactions
MaxTxns == 3
\* trading days of a backtest run
MaxDays == 2
\* initial capital of a backtest run, in dollars
RunDollars == 21
MaxPairs == 2
\* instants per day at which an earnings record can be stamped
DayParts == 2
\* records of an earnings table
MaxRecords == 2
\* transactions of the life of one round trip
MaxLifeTxns == 4

Tickers == {"A", "B"}
\* the value streams uuid4 can return: the k-th uuid4() of a stream is <<k, entropy>>
Entropy == {0, 1}
NoId == <<0, 0>>
\* a round trip refers to its exit rule object: None, or the strategy's rule
NoRule == "None"
NoPnl == [num |-> 0, den |-> 1]

VARIABLES
  portfolio,   \* the Portfolio object
  last,        \* the last ledger call: operation, returned id, result, pnl
  exit_rules,  \* the exit rule object under evaluation (the strategy's rule)
  decision,    \* the last should_exit call: its arguments and what it returned
  run,         \* the Backtester: its strategy, current day, position in run()
  twin         \* a second Backtester.run of the same configuration, if any

vars == <<portfolio, last, exit_rules, decision, run, twin>>

\* ------------------------------------------------------- sequence helpers
RECURSIVE SumSeq(_)
SumSeq(s) == IF s = <<>> THEN 0 ELSE Head(s) + SumSeq(Tail(s))


\* --------------------------------------------------------- TransactionCost
calculate_entry_cost_gross(tc, shares, price) == shares * price * SlipDen
calculate_entry_cost(tc, shares, price) ==
  LET base_cost == shares * price * SlipDen
      slippage_cost == shares * price * tc.slippage_pct
  IN  base_cost + slippage_cost + tc.commission

calculate_exit_value(tc, shares, price) ==
  LET gross_proceeds == shares * price * SlipDen
      slippage_cost == shares * price * tc.slippage_pct
  IN  gross_proceeds - slippage_cost - tc.commission

\* the ValueError both calculate_* raise first, "" when they return
CostError(shares, price) ==
  IF shares <= 0 THEN "ValueError: Shares must be positive"
  ELSE IF price <= 0 THEN "ValueError: Price must be positive"
  ELSE ""

\* --------------------------------------------------------------- RoundTrip
\* RoundTrip(id=..., ticker=...): no transactions yet, nothing spent or received
RoundTrip(id, ticker) ==
  [id |-> id, ticker |-> ticker, transactions |-> <<>>, exit_rule |-> NoRule,
   total_cost |-> 0, total_proceeds |-> 0]

IsEntry_always(t) == TRUE
IsEntry(t) == t.transaction_type \in {"open", "add"}

add_transaction_dropped(rt, txn) == rt
add_transaction(rt, txn) ==
  [rt EXCEPT !.transactions = Append(@, txn),
             !.total_cost = IF IsEntry(txn)
                            THEN @ + (IF txn.net_amount < 0 THEN -txn.net_amount
                                      ELSE txn.net_amount)
                            ELSE @,
             !.total_proceeds = IF IsEntry(txn) THEN @ ELSE @ + txn.net_amount]

total_shares(rt) ==
  SumSeq([i \in DOMAIN rt.transactions |->
            IF IsEntry(rt.transactions[i]) THEN rt.transactions[i].shares ELSE 0])

remaining_shares_ever_entered(rt) == total_shares(rt)
remaining_shares(rt) ==
  LET entries == SumSeq([i \in DOMAIN rt.transactions |->
                    IF rt.transactions[i].transaction_type \in {"open", "add"}
                    THEN rt.transactions[i].shares ELSE 0])
      exits == SumSeq([i \in DOMAIN rt.transactions |->
                    IF rt.transactions[i].transaction_type \in {"reduce", "close"}
                    THEN rt.transactions[i].shares ELSE 0])
  IN  entries - exits

\* average_entry_price in dollars per share, as a quotient:
\* (total_cost/Dollar) / (total_shares/ShareScale) = total_cost / (SlipDen*total_shares)
average_entry_price(rt) ==
  IF total_shares(rt) = 0 THEN [num |-> 0, den |-> 1]
  ELSE [num |-> rt.total_cost, den |-> SlipDen * total_shares(rt)]

realized_pnl(rt) == rt.total_proceeds - rt.total_cost

\* --------------------------------------------------------------- Portfolio
NewPortfolio(starting_capital, max_positions, transaction_cost, fractional_shares, entropy) ==
  [starting_capital |-> starting_capital,
   cash |-> starting_capital,
   max_positions |-> max_positions,
   transaction_cost |-> transaction_cost,
   fractional_shares |-> fractional_shares,
   open_roundtrips |-> <<>>,      \* dict id -> RoundTrip, in insertion order
   closed_roundtrips |-> <<>>,
   transaction_log |-> <<>>,
   equity_history |-> <<>>,
   entropy |-> entropy,           \* the uuid4 stream of this run
   uuids |-> 0]                   \* uuid4 values drawn so far

\* the k-th uuid4() of the call in progress
uuid4_repeated(p, k) == <<1, p.entropy>>
uuid4(p, k) == <<p.uuids + k, p.entropy>>

OpenIds(p) == {p.open_roundtrips[i].id : i \in DOMAIN p.open_roundtrips}
ClosedIds(p) == {p.closed_roundtrips[i].id : i \in DOMAIN p.closed_roundtrips}
IndexOf(p, id) == CHOOSE i \in DOMAIN p.open_roundtrips : p.open_roundtrips[i].id = id

can_open_position_inclusive(p) == Len(p.open_roundtrips) <= p.max_positions
can_open_position(p) == Len(p.open_roundtrips) < p.max_positions

\* self.cash -= cost and self.cash += exit_value
Debit_nothing(p, cost) == p
Debit(p, cost) == [p EXCEPT !.cash = @ - cost]
Credit_nothing(p, exit_value) == p
Credit(p, exit_value) == [p EXCEPT !.cash = @ + exit_value]

\* roundtrip_id not in self.open_roundtrips
NotFound(p, roundtrip_id) == roundtrip_id \notin OpenIds(p)

\* del self.open_roundtrips[roundtrip_id]: the other entries keep their order
del_roundtrip_forgotten(open, i) == open
del_roundtrip(open, i) ==
  [k \in 1..(Len(open) - 1) |-> IF k < i THEN open[k] ELSE open[k + 1]]

\* float(int(shares)): truncation toward zero to a whole share
round_shares_up(p, shares) ==
  IF p.fractional_shares THEN shares
  ELSE ((shares + ShareScale - 1) \div ShareScale) * ShareScale
round_shares(p, shares) ==
  IF p.fractional_shares THEN shares
  ELSE IF shares >= 0 THEN (shares \div ShareScale) * ShareScale
  ELSE -(((-shares) \div ShareScale) * ShareScale)

\* what a ledger call gives back: the portfolio after it, its outcome
\* (return value or exception), the id it concerned and a returned P&L
Outcome(p, ret, id, pnl) == [portfolio |-> p, ret |-> ret, id |-> id, pnl |-> pnl]

\* the call ended in an exception
Raised(r) == r.ret \in {"ValueError: not found", "ValueError: Cannot exit",
                        "ValueError: Shares must be positive",
                        "ValueError: Price must be positive"}

open_position(p, ticker, date, price, shares_arg, exit_rule) ==
  LET shares == round_shares(p, shares_arg) IN
  IF shares <= 0 THEN Outcome(p, "None", NoId, NoPnl)
  ELSE IF ~can_open_position(p) THEN Outcome(p, "None", NoId, NoPnl)
  ELSE IF CostError(shares, price) # "" THEN Outcome(p, CostError(shares, price), NoId, NoPnl)
  ELSE
    LET entry_cost == calculate_entry_cost(p.transaction_cost, shares, price) IN
    IF entry_cost > p.cash THEN Outcome(p, "None", NoId, NoPnl)
    ELSE
      LET roundtrip_id == uuid4(p, 1)
          transaction == [id |-> uuid4(p, 2), roundtrip_id |-> roundtrip_id,
                          ticker |-> ticker, date |-> date,
                          transaction_type |-> "open", shares |-> shares,
                          price |-> price, net_amount |-> -entry_cost,
                          reason |-> "signal"]
          roundtrip == add_transaction(
                          [id |-> roundtrip_id, ticker |-> ticker,
                           transactions |-> <<>>, exit_rule |-> exit_rule,
                           total_cost |-> 0, total_proceeds |-> 0],
                          transaction)
      IN  Outcome([Debit(p, entry_cost) EXCEPT
                            !.open_roundtrips = Append(@, roundtrip),
                            !.transaction_log = Append(@, transaction),
                            !.uuids = @ + 2],
                  "RoundTrip", roundtrip_id, NoPnl)

add_to_position(p, roundtrip_id, date, price, shares_arg, reason) ==
  IF NotFound(p, roundtrip_id)
  THEN Outcome(p, "ValueError: not found", roundtrip_id, NoPnl)
  ELSE
    LET i == IndexOf(p, roundtrip_id)
        roundtrip == p.open_roundtrips[i]
        shares == round_shares(p, shares_arg)
    IN
    IF shares <= 0 THEN Outcome(p, "False", roundtrip_id, NoPnl)
    ELSE IF CostError(shares, price) # ""
    THEN Outcome(p, CostError(shares, price), roundtrip_id, NoPnl)
    ELSE
      LET add_cost == calculate_entry_cost(p.transaction_cost, shares, price) IN
      IF add_cost > p.cash THEN Outcome(p, "False", roundtrip_id, NoPnl)
      ELSE
        LET transaction == [id |-> uuid4(p, 1), roundtrip_id |-> roundtrip_id,
                            ticker |-> roundtrip.ticker, date |-> date,
                            transaction_type |-> "add", shares |-> shares,
                            price |-> price, net_amount |-> -add_cost,
                            reason |-> reason]
        IN  Outcome([Debit(p, add_cost) EXCEPT
                              !.open_roundtrips[i] = add_transaction(@, transaction),
                              !.transaction_log = Append(@, transaction),
                              !.uuids = @ + 1],
                    "True", roundtrip_id, NoPnl)

\* the guard of reduce_position on the requested quantity
TooManyShares_unchecked(shares, roundtrip) == FALSE
TooManyShares(shares, roundtrip) == shares > remaining_shares(roundtrip)

\* the test that moves a round trip to closed_roundtrips
IsClosedOut_never(roundtrip) == FALSE
IsClosedOut(roundtrip) == remaining_shares(roundtrip) = 0

reduce_position(p, roundtrip_id, date, price, shares, reason) ==
  IF NotFound(p, roundtrip_id)
  THEN Outcome(p, "ValueError: not found", roundtrip_id, NoPnl)
  ELSE
    LET i == IndexOf(p, roundtrip_id)
        roundtrip == p.open_roundtrips[i]
    IN
    IF TooManyShares(shares, roundtrip)
    THEN Outcome(p, "ValueError: Cannot exit", roundtrip_id, NoPnl)
    ELSE IF CostError(shares, price) # ""
    THEN Outcome(p, CostError(shares, price), roundtrip_id, NoPnl)
    ELSE
      LET exit_value == calculate_exit_value(p.transaction_cost, shares, price)
          transaction == [id |-> uuid4(p, 1), roundtrip_id |-> roundtrip_id,
                          ticker |-> roundtrip.ticker, date |-> date,
                          transaction_type |-> "reduce", shares |-> shares,
                          price |-> price, net_amount |-> exit_value,
                          reason |-> reason]
          \* exit_value - average_entry_price * shares, in money units:
          \* (exit_value*total_shares - total_cost*shares) / total_shares
          pnl == IF total_shares(roundtrip) = 0
                 THEN [num |-> exit_value, den |-> 1]
                 ELSE [num |-> exit_value * total_shares(roundtrip)
                                 - roundtrip.total_cost * shares,
                       den |-> total_shares(roundtrip)]
          after == add_transaction(roundtrip, transaction)
          q == [Credit(p, exit_value) EXCEPT
                         !.open_roundtrips[i] = after,
                         !.transaction_log = Append(@, transaction),
                         !.uuids = @ + 1]
      IN  IF IsClosedOut(after)
          THEN Outcome([q EXCEPT !.closed_roundtrips = Append(@, after),
                                 !.open_roundtrips = del_roundtrip(@, i)],
                       "float", roundtrip_id, pnl)
          ELSE Outcome(q, "float", roundtrip_id, pnl)

close_position(p, roundtrip_id, date, price, reason) ==
  IF NotFound(p, roundtrip_id)
  THEN Outcome(p, "ValueError: not found", roundtrip_id, NoPnl)
  ELSE reduce_position(p, roundtrip_id, date, price,
                       remaining_shares(p.open_roundtrips[IndexOf(p, roundtrip_id)]),
                       reason)

record_equity_latest_only(p, date, value) ==
  [p EXCEPT !.equity_history = <<[date |-> date, value |-> value]>>]
record_equity(p, date, value) ==
  [p EXCEPT !.equity_history = Append(@, [date |-> date, value |-> value])]

\* --------------------------------------------------------------- ExitRule
\* A rule object: its type tag, its threshold n (holding_days, or stop_pct,
\* trailing_pct, target_pct as n/PctDen), its own exit_portion (portion/PortionDen),
\* the (rule, portion) list of a composite, and the _peak_prices of a trailing stop.
Full == PortionDen
NoPeaks == [id \in {} |-> NoPnl]
TimeBasedExit(holding_days) ==
  [type |-> "TimeBasedExit", n |-> holding_days, portion |-> Full,
   rules |-> <<>>, peak_prices |-> NoPeaks]
StopLossExit(stop_pct) ==
  [type |-> "StopLossExit", n |-> stop_pct, portion |-> Full,
   rules |-> <<>>, peak_prices |-> NoPeaks]
TrailingStopExit(trailing_pct) ==
  [type |-> "TrailingStopExit", n |-> trailing_pct, portion |-> Full,
   rules |-> <<>>, peak_prices |-> NoPeaks]
ProfitTargetExit(target_pct, exit_portion) ==
  [type |-> "ProfitTargetExit", n |-> target_pct, portion |-> exit_portion,
   rules |-> <<>>, peak_prices |-> NoPeaks]
CompositeExitRule(rules) ==
  [type |-> "CompositeExitRule", n |-> 0, portion |-> 0,
   rules |-> rules, peak_prices |-> NoPeaks]

\* the rules __init__ accepts: positive thresholds, a ProfitTargetExit portion
\* in (0, 1], a non-empty composite list whose entries are not inspected
RECURSIVE Constructible(_)
Constructible(rule) ==
  CASE rule.type = "ProfitTargetExit" ->
         rule.n > 0 /\ 0 < rule.portion /\ rule.portion <= Full
    [] rule.type = "CompositeExitRule" ->
         /\ rule.rules # <<>>
         /\ \A k \in DOMAIN rule.rules : Constructible(rule.rules[k].rule)
    [] OTHER -> rule.n > 0

Slot(rule, portion) == [rule |-> rule, portion |-> portion]

\* (should_exit, exit_portion, reason) and the rule object after the call
Decision(fires, portion, reason, rule) ==
  [fires |-> fires, portion |-> portion, reason |-> reason, rule |-> rule]
NoExit(rule) == Decision(FALSE, 0, "", rule)

MinDate_of_last(txns) == txns[Len(txns)].date
MinDate(txns) ==
  CHOOSE d \in {txns[i].date : i \in DOMAIN txns} :
    \A i \in DOMAIN txns : d <= txns[i].date

get_holding_days(rt, current_date) ==
  IF rt.transactions = <<>> THEN 0 ELSE current_date - MinDate(rt.transactions)

\* (price - avg_entry) / avg_entry, as a quotient
PnlPct(rt, price) ==
  LET avg == average_entry_price(rt)
  IN  [num |-> price * avg.den - avg.num, den |-> avg.num]

TimeBasedExit_should_exit(rule, rt, date, price) ==
  IF get_holding_days(rt, date) >= rule.n
  THEN Decision(TRUE, Full, "time_exit", rule)
  ELSE NoExit(rule)

StopLossExit_should_exit_below(rule, rt, date, price) ==
  IF average_entry_price(rt).num <= 0 THEN NoExit(rule)
  ELSE IF PnlPct(rt, price).num * PctDen < -rule.n * PnlPct(rt, price).den
       THEN Decision(TRUE, Full, "stop_loss", rule)
       ELSE NoExit(rule)
StopLossExit_should_exit(rule, rt, date, price) ==
  IF average_entry_price(rt).num <= 0 THEN NoExit(rule)
  ELSE IF PnlPct(rt, price).num * PctDen <= -rule.n * PnlPct(rt, price).den
       THEN Decision(TRUE, Full, "stop_loss", rule)
       ELSE NoExit(rule)

ProfitTargetExit_should_exit_in_full(rule, rt, date, price) ==
  IF average_entry_price(rt).num <= 0 THEN NoExit(rule)
  ELSE IF PnlPct(rt, price).num * PctDen >= rule.n * PnlPct(rt, price).den
       THEN Decision(TRUE, Full, "profit_target", rule)
       ELSE NoExit(rule)
ProfitTargetExit_should_exit(rule, rt, date, price) ==
  IF average_entry_price(rt).num <= 0 THEN NoExit(rule)
  ELSE IF PnlPct(rt, price).num * PctDen >= rule.n * PnlPct(rt, price).den
       THEN Decision(TRUE, rule.portion, "profit_target", rule)
       ELSE NoExit(rule)

\* if price > self._peak_prices[roundtrip.id]: self._peak_prices[roundtrip.id] = price
UpdatePeak_on_first_only(start, price) == start
UpdatePeak(start, price) ==
  IF price * start.den > start.num THEN [num |-> price, den |-> 1] ELSE start

TrailingStopExit_should_exit(rule, rt, date, price) ==
  LET start == IF rt.id \in DOMAIN rule.peak_prices
               THEN rule.peak_prices[rt.id] ELSE average_entry_price(rt)
      peak == UpdatePeak(start, price)
      after == [rule EXCEPT !.peak_prices =
                  [id \in DOMAIN rule.peak_prices \cup {rt.id} |->
                     IF id = rt.id THEN peak ELSE rule.peak_prices[id]]]
  IN  IF peak.num <= 0 THEN NoExit(after)
      \* drawdown = (peak - price) / peak >= trailing_pct
      ELSE IF (peak.num - price * peak.den) * PctDen >= rule.n * peak.num
           THEN Decision(TRUE, Full, "trailing_stop", after)
           ELSE NoExit(after)

\* the portion a composite returns for the slot whose rule fired
CompositeOwnPortion(slot, fired) == fired.portion
CompositePortion(slot, fired) == slot.portion

RECURSIVE should_exit(_, _, _, _)
RECURSIVE CompositeLoop(_, _, _, _, _)
RECURSIVE CompositeLoop_every_rule(_, _, _, _, _)

\* a loop that asks every sub-rule and answers with the first that fired
CompositeLoop_every_rule(rule, k, rt, date, price) ==
  IF k > Len(rule.rules) THEN NoExit(rule)
  ELSE
    LET d == should_exit(rule.rules[k].rule, rt, date, price)
        after == [rule EXCEPT !.rules[k].rule = d.rule]
        rest == CompositeLoop_every_rule(after, k + 1, rt, date, price)
    IN  IF d.fires
        THEN Decision(TRUE, CompositePortion(rule.rules[k], d), d.reason, rest.rule)
        ELSE rest

\* for rule, portion in self.rules, from the k-th entry on
CompositeLoop(rule, k, rt, date, price) ==
  IF k > Len(rule.rules) THEN NoExit(rule)
  ELSE
    LET d == should_exit(rule.rules[k].rule, rt, date, price)
        after == [rule EXCEPT !.rules[k].rule = d.rule]
    IN  IF d.fires
        THEN Decision(TRUE, CompositePortion(rule.rules[k], d), d.reason, after)
        ELSE CompositeLoop(after, k + 1, rt, date, price)

should_exit(rule, rt, date, price) ==
  CASE rule.type = "TimeBasedExit" -> TimeBasedExit_should_exit(rule, rt, date, price)
    [] rule.type = "StopLossExit" -> StopLossExit_should_exit(rule, rt, date, price)
    [] rule.type = "TrailingStopExit" -> TrailingStopExit_should_exit(rule, rt, date, price)
    [] rule.type = "ProfitTargetExit" -> ProfitTargetExit_should_exit(rule, rt, date, price)
    [] rule.type = "CompositeExitRule" -> CompositeLoop(rule, 1, rt, date, price)

\* ------------------------------------------------- exit-rule serialization
\* to_dict: the type tag and the constructor parameters; a composite lists
\* {"rule": rule.to_dict(), "portion": portion} per slot. _peak_prices is not
\* written.
RECURSIVE to_dict(_)
to_dict(rule) ==
  CASE rule.type = "TimeBasedExit" ->
         [type |-> rule.type, params |-> [holding_days |-> rule.n]]
    [] rule.type = "StopLossExit" ->
         [type |-> rule.type, params |-> [stop_pct |-> rule.n]]
    [] rule.type = "TrailingStopExit" ->
         [type |-> rule.type, params |-> [trailing_pct |-> rule.n]]
    [] rule.type = "ProfitTargetExit" ->
         [type |-> rule.type,
          params |-> [target_pct |-> rule.n, exit_portion |-> rule.portion]]
    [] rule.type = "CompositeExitRule" ->
         [type |-> rule.type,
          rules |-> [k \in DOMAIN rule.rules |->
                       [rule |-> to_dict(rule.rules[k].rule),
                        portion |-> rule.rules[k].portion]]]

\* what __init__ and create_exit_rule raise
ValueError == [type |-> "ValueError"]
Constructed(rule) == IF Constructible(rule) THEN rule ELSE ValueError

TimeBasedExit_from_dict(data) == Constructed(TimeBasedExit(data.params.holding_days))
StopLossExit_from_dict(data) == Constructed(StopLossExit(data.params.stop_pct))
TrailingStopExit_from_dict(data) == Constructed(TrailingStopExit(data.params.trailing_pct))
ProfitTargetExit_from_dict_default_portion(data) ==
  Constructed(ProfitTargetExit(data.params.target_pct, Full))
\* exit_portion=params.get("exit_portion", 1.0)
ProfitTargetExit_from_dict(data) ==
  Constructed(ProfitTargetExit(data.params.target_pct,
                               IF "exit_portion" \in DOMAIN data.params
                               THEN data.params.exit_portion ELSE Full))

RECURSIVE create_exit_rule(_)
RECURSIVE CompositeExitRule_from_dict(_)
CompositeExitRule_from_dict(data) ==
  LET rules == [k \in DOMAIN data.rules |->
                  Slot(create_exit_rule(data.rules[k].rule), data.rules[k].portion)]
  IN  IF \E k \in DOMAIN rules : rules[k].rule = ValueError THEN ValueError
      ELSE IF rules = <<>> THEN ValueError
      ELSE CompositeExitRule(rules)

create_exit_rule(data) ==
  CASE data.type = "TimeBasedExit" -> TimeBasedExit_from_dict(data)
    [] data.type = "StopLossExit" -> StopLossExit_from_dict(data)
    [] data.type = "TrailingStopExit" -> TrailingStopExit_from_dict(data)
    [] data.type = "ProfitTargetExit" -> ProfitTargetExit_from_dict(data)
    [] data.type = "CompositeExitRule" -> CompositeExitRule_from_dict(data)
    [] OTHER -> ValueError

\* ---------------------------------------------- values of an idle component
NoCall == [op |-> "init", id |-> NoId, ret |-> "", pnl |-> NoPnl]
NoRuleObject == [type |-> "None"]
NoDecision == [n |-> 0, roundtrip |-> 0, date |-> 0, price |-> 0,
               fires |-> FALSE, portion |-> 0, reason |-> "", fired |-> 0]
NoRun == [pc |-> "none"]

\* ------------------------------------------------- the ledger's client
\* Spec: a client that calls the four mutating operations of one Portfolio
\* in any order with any arguments of the sets below.
StartDollars == 4
MaxPositionsSet == {1, 2}
TransactionCosts ==
  {[commission |-> 0, slippage_pct |-> 0],
   [commission |-> 0, slippage_pct |-> 1],
   [commission |-> 3 * Dollar, slippage_pct |-> 0]}
ApiTickers == {"A"}
ApiPrices == {0, 1, 2}
\* share units: half a share, a share and a half
ApiShares == {0, ShareScale \div 2, 3 * (ShareScale \div 2)}
ApiDates == {1}
\* ids a client can pass: those of round trips it was given, and one it was not
ApiIds == OpenIds(portfolio) \cup ClosedIds(portfolio) \cup {NoId}

Init ==
  /\ portfolio \in {NewPortfolio(StartDollars * Dollar, mp, tc, fs, e) :
                      mp \in MaxPositionsSet, tc \in TransactionCosts,
                      fs \in BOOLEAN, e \in Entropy}
  /\ last = NoCall
  /\ exit_rules = NoRuleObject
  /\ decision = NoDecision
  /\ run = NoRun
  /\ twin = <<>>

Called(op, r) ==
  /\ portfolio' = r.portfolio
  /\ last' = [op |-> op, id |-> r.id, ret |-> r.ret, pnl |-> r.pnl]
  /\ UNCHANGED <<exit_rules, decision, run, twin>>

ClientActive == Len(portfolio.transaction_log) < MaxTxns

OpenPosition ==
  /\ ClientActive
  /\ \E ticker \in ApiTickers, date \in ApiDates, price \in ApiPrices, shares \in ApiShares :
       Called("open_position",
              open_position(portfolio, ticker, date, price, shares, NoRule))

AddToPosition ==
  /\ ClientActive
  /\ \E id \in ApiIds, date \in ApiDates, price \in ApiPrices, shares \in ApiShares :
       Called("add_to_position",
              add_to_position(portfolio, id, date, price, shares, "add"))

ReducePosition ==
  /\ ClientActive
  /\ \E id \in ApiIds, date \in ApiDates, price \in ApiPrices, shares \in ApiShares :
       Called("reduce_position",
              reduce_position(portfolio, id, date, price, shares, "exit"))

ClosePosition ==
  /\ ClientActive
  /\ \E id \in ApiIds, date \in ApiDates, price \in ApiPrices :
       Called("close_position",
              close_position(portfolio, id, date, price, "exit"))

Next == OpenPosition \/ AddToPosition \/ ReducePosition \/ ClosePosition

Spec == Init /\ [][Next]_vars

\* ------------------------------------------------- the life of a round trip
\* SpecLife: a client opens one position and then adds to it, sells part of it
\* or closes it, in any order, keeping the P&L values the calls return.
LifePrices == {1, 2}
LifeShares == {ShareScale \div 2, ShareScale}
LifeCosts == {[commission |-> 0, slippage_pct |-> 0],
              [commission |-> 0, slippage_pct |-> 1]}

InitLife ==
  /\ \E tc \in LifeCosts, price \in LifePrices :
       LET r == open_position(NewPortfolio(2 * StartDollars * Dollar, 1, tc, TRUE, 0),
                              "A", 1, price, ShareScale, NoRule)
       IN  /\ portfolio = r.portfolio
           /\ last = [op |-> "open_position", id |-> r.id, ret |-> r.ret,
                      pnl |-> r.pnl, returned |-> <<>>]
  /\ exit_rules = NoRuleObject
  /\ decision = NoDecision
  /\ run = NoRun
  /\ twin = <<>>

\* the client keeps the float a reduce or close returned
Kept(op, r) ==
  /\ portfolio' = r.portfolio
  /\ last' = [op |-> op, id |-> r.id, ret |-> r.ret, pnl |-> r.pnl,
              returned |-> IF r.ret = "float" THEN Append(last.returned, r.pnl)
                           ELSE last.returned]
  /\ UNCHANGED <<exit_rules, decision, run, twin>>

LifeActive ==
  /\ Len(portfolio.transaction_log) < MaxLifeTxns
  /\ portfolio.open_roundtrips # <<>>

AddMore ==
  /\ LifeActive
  /\ \E price \in LifePrices, shares \in LifeShares :
       Kept("add_to_position",
            add_to_position(portfolio, portfolio.open_roundtrips[1].id,
                            Len(portfolio.transaction_log) + 1, price, shares, "add"))

ReducePart ==
  /\ LifeActive
  /\ \E price \in LifePrices, shares \in LifeShares :
       /\ shares <= remaining_shares(portfolio.open_roundtrips[1])
       /\ Kept("reduce_position",
               reduce_position(portfolio, portfolio.open_roundtrips[1].id,
                               Len(portfolio.transaction_log) + 1, price, shares, "exit"))

CloseOut ==
  /\ LifeActive
  /\ \E price \in LifePrices :
       Kept("close_position",
            close_position(portfolio, portfolio.open_roundtrips[1].id,
                           Len(portfolio.transaction_log) + 1, price, "exit"))

NextLife == AddMore \/ ReducePart \/ CloseOut

SpecLife == InitLife /\ [][NextLife]_vars

\* ------------------------------------------- exit rules on one open position
\* Two round trips, A bought at an entry price on day 0 and B at a higher one
\* on day 5; the rule object is then asked, at later dates and prices, whether
\* either position should be exited.
Half == PortionDen \div 2
MaxEvals == 2
EvalEntryPrices == {100}
EvalSecondPrices == {120}
EvalPrices == {90, 92, 93, 100, 119, 120, 135, 137, 150}
EvalDates == {10, 35}
EvalCosts == {[commission |-> 0, slippage_pct |-> 0],
              [commission |-> 0, slippage_pct |-> 1]}
StrategyRule == "strategy.exit_rules"

ExitRuleChoices ==
  { TimeBasedExit(30), StopLossExit(8), TrailingStopExit(10),
    ProfitTargetExit(20, Half),
    CompositeExitRule(<<Slot(StopLossExit(8), Full), Slot(TimeBasedExit(30), Full)>>),
    CompositeExitRule(<<Slot(ProfitTargetExit(20, Full), Half),
                        Slot(TimeBasedExit(30), Full)>>),
    CompositeExitRule(<<Slot(TimeBasedExit(30), Half), Slot(StopLossExit(8), Full)>>),
    CompositeExitRule(<<Slot(TrailingStopExit(10), Full),
                        Slot(ProfitTargetExit(20, Half), Full)>>),
    CompositeExitRule(<<Slot(StopLossExit(8), 0), Slot(TimeBasedExit(30), Full + Half)>>),
    CompositeExitRule(<<Slot(CompositeExitRule(<<Slot(TrailingStopExit(10), Full)>>), Half),
                        Slot(TimeBasedExit(30), Full)>>),
    CompositeExitRule(<<Slot(ProfitTargetExit(20, Half), Half),
                        Slot(TrailingStopExit(10), Full)>>) }

\* two positions, A entered on day 0 and B on day 5; B may have been added to
\* on day 8 at the price A was entered at
TwoPositions(tc, price, second) ==
  open_position(
    open_position(NewPortfolio(4 * price * Dollar, 2, tc, TRUE, 0),
                  "A", 0, price, ShareScale, StrategyRule).portfolio,
    "B", 5, second, ShareScale, StrategyRule).portfolio

InitExit ==
  /\ portfolio \in
       UNION {{TwoPositions(tc, price, second),
               add_to_position(TwoPositions(tc, price, second),
                               TwoPositions(tc, price, second).open_roundtrips[2].id,
                               8, price, ShareScale, "add").portfolio} :
              tc \in EvalCosts, price \in EvalEntryPrices, second \in EvalSecondPrices}
  /\ last = NoCall
  /\ exit_rules \in ExitRuleChoices
  /\ decision = NoDecision
  /\ run = NoRun
  /\ twin = <<>>

\* exit_rule.should_exit(roundtrip, date, price) on one of the open round trips
Evaluate ==
  /\ decision.n < MaxEvals
  /\ \E i \in DOMAIN portfolio.open_roundtrips, date \in EvalDates, price \in EvalPrices :
       LET d == should_exit(exit_rules, portfolio.open_roundtrips[i], date, price)
       IN  /\ decision' = [n |-> decision.n + 1, roundtrip |-> i,
                           date |-> date, price |-> price,
                           fires |-> d.fires, portion |-> d.portion,
                           reason |-> d.reason,
                           fired |-> decision.fired + (IF d.fires THEN 1 ELSE 0)]
           /\ exit_rules' = d.rule
  /\ UNCHANGED <<portfolio, last, run, twin>>

NextExit == Evaluate

SpecExit == InitExit /\ [][NextExit]_vars

\* ------------------------------------------------------------ PositionSizer
\* A sizer: its type tag and its parameters; dollar amounts in money units,
\* percentages as n/PctDen, shares in share units.  calculate_shares answers
\* with a number of share units num/den, or raises.
FixedDollarAmount(dollar_amount) ==
  [type |-> "FixedDollarAmount", dollar_amount |-> dollar_amount]
PercentPortfolio(percent) == [type |-> "PercentPortfolio", percent |-> percent]
PercentAvailableCash(percent) == [type |-> "PercentAvailableCash", percent |-> percent]
EqualWeight(default_max_positions) ==
  [type |-> "EqualWeight", default_max_positions |-> default_max_positions]
FixedShares(shares) == [type |-> "FixedShares", shares |-> shares]
RiskParity(base_dollar_amount, target_volatility, max_adjustment) ==
  [type |-> "RiskParity", base_dollar_amount |-> base_dollar_amount,
   target_volatility |-> target_volatility, max_adjustment |-> max_adjustment]

\* portfolio=None
NoPortfolio == [absent |-> TRUE]

min_first(a, b) == a
min(a, b) == IF a <= b THEN a ELSE b

Sized(num, den) == [ret |-> "float", num |-> num, den |-> den]

\* amount / price, 0.0 when the amount is not positive; amount = num/den money units
SharesFor(num, den, price) ==
  IF num <= 0 THEN Sized(0, 1) ELSE Sized(num, den * price * SlipDen)

calculate_shares(sizer, price, available_cash, portfolio_value, p) ==
  IF price <= 0
  THEN [ret |-> "ValueError: price must be positive", num |-> 0, den |-> 1]
  ELSE
    CASE sizer.type = "FixedDollarAmount" ->
           SharesFor(min(sizer.dollar_amount, available_cash), 1, price)
      [] sizer.type = "PercentPortfolio" ->
           \* min(portfolio_value * percent, available_cash)
           SharesFor(min(portfolio_value * sizer.percent, available_cash * PctDen),
                     PctDen, price)
      [] sizer.type = "PercentAvailableCash" ->
           SharesFor(available_cash * sizer.percent, PctDen, price)
      [] sizer.type = "EqualWeight" ->
           LET max_positions == IF "absent" \in DOMAIN p
                                THEN sizer.default_max_positions
                                ELSE p.max_positions
           IN  SharesFor(available_cash, max_positions, price)
      [] sizer.type = "FixedShares" ->
           IF sizer.shares * price * SlipDen > available_cash
           THEN Sized(0, 1) ELSE Sized(sizer.shares, 1)
      [] sizer.type = "RiskParity" ->
           SharesFor(min(sizer.base_dollar_amount, available_cash), 1, price)

\* the share units of an answer that is a whole number of them
ShareUnits(sized) == sized.num \div sized.den

\* ----------------------------------------------------------------- Strategy
EntryRule(signal_type, priority) == [signal_type |-> signal_type, priority |-> priority]

\* the order list.sort(key=priority, reverse=True) gives two elements: an
\* element already placed stays ahead of a later one of no higher priority
StaysAhead_ascending(placed, later) == placed.priority <= later.priority
StaysAhead_strictly(placed, later) == placed.priority > later.priority
StaysAhead(placed, later) == placed.priority >= later.priority

InsertSignal(sorted, signal) ==
  LET ahead == {k \in DOMAIN sorted : \A j \in 1..k : StaysAhead(sorted[j], signal)}
      n == Cardinality(ahead)
  IN  SubSeq(sorted, 1, n) \o <<signal>> \o SubSeq(sorted, n + 1, Len(sorted))

RECURSIVE SortByPriority(_)
SortByPriority(signals) ==
  IF signals = <<>> THEN <<>>
  ELSE InsertSignal(SortByPriority(SubSeq(signals, 1, Len(signals) - 1)),
                    signals[Len(signals)])

\* rule.should_enter(ticker, ...) for every ticker of the universe and every
\* entry rule, in that order; fires is the set of (ticker, rule) pairs whose
\* condition the day's data meets
generate_signals(strategy, current_date, fires) ==
  LET R == Len(strategy.entry_rules)
      candidate(n) ==
        LET ticker == strategy.universe[((n - 1) \div R) + 1]
            rule == strategy.entry_rules[((n - 1) % R) + 1]
        IN  [ticker |-> ticker, date |-> current_date,
             signal_type |-> rule.signal_type, priority |-> rule.priority]
      all == [n \in 1..(Len(strategy.universe) * R) |-> candidate(n)]
      triggered(sig) == <<sig.ticker, sig.signal_type>> \in fires
  IN  SortByPriority(SelectSeq(all, triggered))

\* --------------------------------------------------------------- Backtester
\* A backtester b is [portfolio, exit_rules, run]: the ledger, the strategy's
\* exit rule object, and run = [pc, day, strategy, end_in_index, current_prices,
\* signals, positions_to_exit, attempted, entered].  Trading day k has date k.
\* A row of price_data maps every ticker to its close, 0 standing for a
\* missing, NaN or non-positive entry.
Range(seq) == {seq[i] : i \in DOMAIN seq}
NoPrices == [t \in {} |-> 0]

get_current_prices_unfiltered(b, in_index, row) ==
  [t \in Range(b.run.strategy.universe) |-> row[t]]
get_current_prices(b, in_index, row) ==
  IF ~in_index THEN NoPrices
  ELSE LET held == {b.portfolio.open_roundtrips[i].ticker :
                      i \in DOMAIN b.portfolio.open_roundtrips}
           known == {t \in Range(b.run.strategy.universe) \cup held : row[t] > 0}
       IN  [t \in known |-> row[t]]

calculate_portfolio_value_cash_only(p, current_prices) == p.cash
calculate_portfolio_value(p, current_prices) ==
  p.cash + SumSeq([i \in DOMAIN p.open_roundtrips |->
                     IF p.open_roundtrips[i].ticker \in DOMAIN current_prices
                     THEN remaining_shares(p.open_roundtrips[i])
                            * current_prices[p.open_roundtrips[i].ticker] * SlipDen
                     ELSE 0])

\* first loop of _process_exits: ask the exit rule about every priced position
RECURSIVE CollectExits(_, _, _, _, _, _)
CollectExits(p, rule, date, current_prices, i, acc) ==
  IF i > Len(p.open_roundtrips)
  THEN [exit_rules |-> rule, positions_to_exit |-> acc]
  ELSE
    LET roundtrip == p.open_roundtrips[i] IN
    IF roundtrip.ticker \notin DOMAIN current_prices
    THEN CollectExits(p, rule, date, current_prices, i + 1, acc)
    ELSE
      LET current_price == current_prices[roundtrip.ticker]
          d == should_exit(rule, roundtrip, date, current_price)
      IN  CollectExits(p, d.rule, date, current_prices, i + 1,
                       IF d.fires
                       THEN Append(acc, [rt_id |-> roundtrip.id, portion |-> d.portion,
                                         price |-> current_price, reason |-> d.reason])
                       ELSE acc)

\* roundtrip.remaining_shares * portion, and whether it is a whole share unit
ExitShares_everything(remaining, portion) == remaining
ExitShares(remaining, portion) == (remaining * portion) \div PortionDen
ExactShares(remaining, portion) == (remaining * portion) % PortionDen = 0

\* portion >= 0.9999
IsFullExit(portion) == portion * 10000 >= 9999 * PortionDen

\* second loop of _process_exits: close or reduce; an exception ends the run
RECURSIVE ExecuteExits(_, _, _, _)
ExecuteExits(p, date, exits, k) ==
  IF k > Len(exits) THEN [portfolio |-> p, ret |-> ""]
  ELSE IF NotFound(p, exits[k].rt_id) THEN [portfolio |-> p, ret |-> "KeyError"]
  ELSE
    LET e == exits[k]
        roundtrip == p.open_roundtrips[IndexOf(p, e.rt_id)]
        shares_to_exit == ExitShares(remaining_shares(roundtrip), e.portion)
        r == IF IsFullExit(e.portion)
             THEN close_position(p, e.rt_id, date, e.price, e.reason)
             ELSE reduce_position(p, e.rt_id, date, e.price, shares_to_exit, e.reason)
    IN  IF Raised(r) THEN [portfolio |-> r.portfolio, ret |-> r.ret]
        ELSE ExecuteExits(r.portfolio, date, exits, k + 1)

\* the same loop leaving at the first signal that cannot be taken
RECURSIVE EntryLoop_until_refused(_, _, _, _, _, _, _, _)
EntryLoop_until_refused(p, strategy, date, current_prices, valid_signals, k, attempted, entered) ==
  IF k > Len(valid_signals) \/ ~can_open_position(p)
  THEN [portfolio |-> p, attempted |-> attempted, entered |-> entered, ret |-> ""]
  ELSE
    LET signal == valid_signals[k]
        current_price == current_prices[signal.ticker]
        sized == calculate_shares(strategy.position_sizer, current_price, p.cash,
                                  calculate_portfolio_value(p, current_prices), p)
        r == open_position(p, signal.ticker, date, current_price,
                           ShareUnits(sized), StrategyRule)
    IN  IF sized.ret # "float" \/ ShareUnits(sized) <= 0 \/ Raised(r) \/ r.ret = "None"
        THEN [portfolio |-> p, attempted |-> Append(attempted, signal),
              entered |-> entered, ret |-> ""]
        ELSE EntryLoop_until_refused(r.portfolio, strategy, date, current_prices,
                                     valid_signals, k + 1, Append(attempted, signal),
                                     Append(entered, signal))

\* the loop of _process_entries over valid_signals, from the k-th on; attempted
\* are the signals that reached the sizer, entered those that got a round trip
RECURSIVE EntryLoop(_, _, _, _, _, _, _, _)
EntryLoop(p, strategy, date, current_prices, valid_signals, k, attempted, entered) ==
  IF k > Len(valid_signals) \/ ~can_open_position(p)
  THEN [portfolio |-> p, attempted |-> attempted, entered |-> entered, ret |-> ""]
  ELSE
    LET signal == valid_signals[k]
        current_price == current_prices[signal.ticker]
        portfolio_value == calculate_portfolio_value(p, current_prices)
        sized == calculate_shares(strategy.position_sizer, current_price,
                                  p.cash, portfolio_value, p)
        shares == ShareUnits(sized)
        r == open_position(p, signal.ticker, date, current_price, shares, StrategyRule)
    IN  IF sized.ret # "float"
        THEN [portfolio |-> p, attempted |-> Append(attempted, signal),
              entered |-> entered, ret |-> sized.ret]
        ELSE IF shares <= 0
        THEN EntryLoop(p, strategy, date, current_prices, valid_signals, k + 1,
                       Append(attempted, signal), entered)
        ELSE IF Raised(r)
        THEN [portfolio |-> r.portfolio, attempted |-> Append(attempted, signal),
              entered |-> entered, ret |-> r.ret]
        ELSE EntryLoop(r.portfolio, strategy, date, current_prices, valid_signals, k + 1,
                       Append(attempted, signal),
                       IF r.ret = "None" THEN entered ELSE Append(entered, signal))

\* the loop of _close_all_positions over list(open_roundtrips.items())
RECURSIVE CloseLoop(_, _, _, _, _)
CloseLoop(p, snapshot, k, final_date, final_prices) ==
  IF k > Len(snapshot) THEN [portfolio |-> p, ret |-> ""]
  ELSE IF snapshot[k].ticker \notin DOMAIN final_prices
  THEN CloseLoop(p, snapshot, k + 1, final_date, final_prices)
  ELSE LET r == close_position(p, snapshot[k].id, final_date,
                               final_prices[snapshot[k].ticker], "backtest_end")
       IN  IF Raised(r) THEN [portfolio |-> r.portfolio, ret |-> r.ret]
           ELSE CloseLoop(r.portfolio, snapshot, k + 1, final_date, final_prices)

\* the steps of _process_day, in the order of its statements
process_day_entries_first == <<"prices", "signals", "entries", "exits", "equity">>
process_day == <<"prices", "exits", "signals", "entries", "equity">>

AfterStep(pc) ==
  LET i == CHOOSE k \in DOMAIN process_day : process_day[k] = pc
  IN  process_day[i + 1]

\* an exception leaves run(): nothing after it is executed
Continue(b, pc, ret) ==
  [b EXCEPT !.run.pc = IF ret = "" THEN pc ELSE "raised"]

\* current_prices = self._get_current_prices(current_date)
get_current_prices_step(b, row) ==
  [b EXCEPT !.run.current_prices = get_current_prices(b, TRUE, row),
            !.run.exits_done = FALSE,
            !.run.pc = AfterStep("prices")]

\* self._process_exits(current_date, current_prices)
process_exits(b) ==
  LET c == CollectExits(b.portfolio, b.exit_rules, b.run.day,
                        b.run.current_prices, 1, <<>>)
      x == ExecuteExits(b.portfolio, b.run.day, c.positions_to_exit, 1)
  IN  Continue([b EXCEPT !.portfolio = x.portfolio,
                         !.exit_rules = c.exit_rules,
                         !.run.positions_to_exit = c.positions_to_exit,
                         !.run.exits_done = TRUE],
               AfterStep("exits"), x.ret)

\* every partial exit the rule decides today is a whole number of share units
ExitsExact(b) ==
  LET c == CollectExits(b.portfolio, b.exit_rules, b.run.day,
                        b.run.current_prices, 1, <<>>)
  IN  \A k \in DOMAIN c.positions_to_exit :
        ExactShares(remaining_shares(
                      b.portfolio.open_roundtrips[
                        IndexOf(b.portfolio, c.positions_to_exit[k].rt_id)]),
                    c.positions_to_exit[k].portion)

\* signals = self.strategy.generate_signals(...)
generate_signals_step(b, fires) ==
  [b EXCEPT !.run.signals = generate_signals(b.run.strategy, b.run.day, fires),
            !.run.pc = AfterStep("signals")]

\* self._process_entries(current_date, current_prices, signals)
process_entries(b) ==
  LET priced(sig) == sig.ticker \in DOMAIN b.run.current_prices
      valid_signals == SelectSeq(b.run.signals, priced)
      e == EntryLoop(b.portfolio, b.run.strategy, b.run.day, b.run.current_prices,
                     valid_signals, 1, <<>>, <<>>)
  IN  Continue([b EXCEPT !.portfolio = e.portfolio,
                         !.run.attempted = e.attempted,
                         !.run.entered = e.entered],
               AfterStep("entries"), e.ret)

\* record_equity closes the day; the locals of _process_day are gone, the row
\* of the last trading day stays readable in price_data
record_equity_step(b) ==
  LET value == calculate_portfolio_value(b.portfolio, b.run.current_prices)
      more == b.run.day < MaxDays
  IN  [b EXCEPT !.portfolio = record_equity(b.portfolio, b.run.day, value),
                !.run.signals = <<>>,
                !.run.positions_to_exit = <<>>,
                !.run.attempted = <<>>,
                !.run.entered = <<>>,
                !.run.current_prices = IF more THEN NoPrices ELSE @,
                !.run.day = IF more THEN @ + 1 ELSE @,
                !.run.pc = IF more THEN process_day[1] ELSE "close_all"]

\* self._close_all_positions(self.end_date): end_date is the last trading day
\* when it is a date of the index, a later date otherwise
close_all_positions(b, end_in_index) ==
  LET final_date == IF end_in_index THEN MaxDays ELSE MaxDays + 1
      final_prices == IF end_in_index THEN b.run.current_prices ELSE NoPrices
      c == CloseLoop(b.portfolio, b.portfolio.open_roundtrips, 1,
                     final_date, final_prices)
  IN  Continue([b EXCEPT !.portfolio = c.portfolio,
                         !.run.end_in_index = end_in_index], "done", c.ret)

\* ------------------------------------------------------- a backtest run
\* Configurations and market data of the runs explored.  A sizer of one whole
\* share; closes of 8 or 10 dollars or missing; two entry rules whose
\* conditions the day's data may meet for any ticker.
RunCosts == {[commission |-> 0, slippage_pct |-> 0],
             [commission |-> 0, slippage_pct |-> 1]}
RunExitRules ==
  { TimeBasedExit(1),
    TrailingStopExit(20),
    CompositeExitRule(<<Slot(StopLossExit(20), Full),
                        Slot(ProfitTargetExit(25, Full), Half)>>) }
RunEntryRules ==
  { <<EntryRule("r1", 2), EntryRule("r2", 1)>>,
    <<EntryRule("r1", 1), EntryRule("r2", 2)>>,
    <<EntryRule("r1", 1), EntryRule("r2", 1)>> }
RunStrategies ==
  {[universe |-> <<"A", "B">>, entry_rules |-> er,
    position_sizer |-> FixedShares(ShareScale)] : er \in RunEntryRules}
RunRows == {row \in [Tickers -> {0, 8, 10}] : row["B"] # 8}
\* each rule's condition is met for at most one ticker a day
FireChoices ==
  {fires \in SUBSET (Tickers \X {"r1", "r2"}) :
     \A x \in fires, y \in fires : x[2] = y[2] => x = y}

\* initial capital: enough for two entries at any close, or for one and then
\* only the cheaper close
RunCapitals == {RunDollars - 2, RunDollars}

Backtesters ==
  {[portfolio |-> NewPortfolio(capital * Dollar, mp, tc, FALSE, 0),
    exit_rules |-> rule,
    run |-> [pc |-> process_day[1], day |-> 1, strategy |-> st,
             end_in_index |-> e, current_prices |-> NoPrices, signals |-> <<>>,
             positions_to_exit |-> <<>>, attempted |-> <<>>, entered |-> <<>>,
             exits_done |-> FALSE]] :
     capital \in RunCapitals, mp \in MaxPositionsSet, tc \in RunCosts,
     rule \in RunExitRules, st \in RunStrategies, e \in {FALSE}}

Self == [portfolio |-> portfolio, exit_rules |-> exit_rules, run |-> run]

InitRun ==
  /\ \E b \in Backtesters :
       /\ portfolio = b.portfolio
       /\ exit_rules = b.exit_rules
       /\ run = b.run
  /\ last = NoCall
  /\ decision = NoDecision
  /\ twin = <<>>

\* a second run of the same configuration, with its own uuid4 stream
InitTwoRuns ==
  /\ \E b \in Backtesters, e \in Entropy :
       /\ portfolio = b.portfolio
       /\ exit_rules = b.exit_rules
       /\ run = b.run
       /\ twin = <<[b EXCEPT !.portfolio.entropy = e]>>
  /\ last = NoCall
  /\ decision = NoDecision

\* one statement of run(): b is the backtester after it, tw its twin after
\* the same statement on the same data
Becomes(b, tw) ==
  /\ portfolio' = b.portfolio
  /\ exit_rules' = b.exit_rules
  /\ run' = b.run
  /\ twin' = tw
  /\ UNCHANGED <<last, decision>>

GetCurrentPrices ==
  /\ run.pc = "prices"
  /\ \E row \in RunRows :
       Becomes(get_current_prices_step(Self, row),
               [i \in DOMAIN twin |-> get_current_prices_step(twin[i], row)])

ProcessExits ==
  /\ run.pc = "exits"
  /\ ExitsExact(Self)
  /\ Becomes(process_exits(Self), [i \in DOMAIN twin |-> process_exits(twin[i])])

GenerateSignals ==
  /\ run.pc = "signals"
  /\ \E fires \in FireChoices :
       Becomes(generate_signals_step(Self, fires),
               [i \in DOMAIN twin |-> generate_signals_step(twin[i], fires)])

ProcessEntries ==
  /\ run.pc = "entries"
  /\ Becomes(process_entries(Self), [i \in DOMAIN twin |-> process_entries(twin[i])])

RecordEquity ==
  /\ run.pc = "equity"
  /\ Becomes(record_equity_step(Self),
             [i \in DOMAIN twin |-> record_equity_step(twin[i])])

CloseAllPositions ==
  /\ run.pc = "close_all"
  /\ \E end_in_index \in BOOLEAN :
       Becomes(close_all_positions(Self, end_in_index),
               [i \in DOMAIN twin |-> close_all_positions(twin[i], end_in_index)])

NextRun ==
  \/ GetCurrentPrices
  \/ ProcessExits
  \/ GenerateSignals
  \/ ProcessEntries
  \/ RecordEquity
  \/ CloseAllPositions

SpecRun == InitRun /\ [][NextRun]_vars

SpecTwoRuns == InitTwoRuns /\ [][NextRun]_vars

\* ------------------------------------------- the entry step with cash sizers
\* SpecAllIn: the entry step of the first day of a run with fractional shares,
\* one slot, and a sizer that spends all the cash, or part of it.
AllInCosts == {[commission |-> 0, slippage_pct |-> 0],
               [commission |-> 0, slippage_pct |-> 1],
               [commission |-> 3 * Dollar, slippage_pct |-> 0]}
AllInCapital == 5 * StartDollars * Dollar
AllInSizers ==
  { FixedDollarAmount(2 * AllInCapital), FixedDollarAmount(AllInCapital \div 2),
    PercentPortfolio(PctDen), PercentPortfolio(PctDen \div 2),
    PercentAvailableCash(PctDen), PercentAvailableCash(PctDen \div 2),
    RiskParity(AllInCapital, 20, 2) }

AllInBacktesters ==
  {[portfolio |-> NewPortfolio(AllInCapital, 1, tc, TRUE, 0),
    exit_rules |-> TimeBasedExit(1),
    run |-> [pc |-> process_day[1], day |-> 1,
             strategy |-> [universe |-> <<"A", "B">>, entry_rules |-> er,
                           position_sizer |-> sizer],
             end_in_index |-> FALSE, current_prices |-> NoPrices, signals |-> <<>>,
             positions_to_exit |-> <<>>, attempted |-> <<>>, entered |-> <<>>,
             exits_done |-> FALSE]] :
     tc \in AllInCosts, er \in RunEntryRules, sizer \in AllInSizers}

\* the sizer's answer for every priced signal is a whole number of share units
SizesExact(b) ==
  \A k \in DOMAIN b.run.signals :
    b.run.signals[k].ticker \in DOMAIN b.run.current_prices =>
      LET sized == calculate_shares(b.run.strategy.position_sizer,
                                    b.run.current_prices[b.run.signals[k].ticker],
                                    b.portfolio.cash,
                                    calculate_portfolio_value(b.portfolio,
                                                              b.run.current_prices),
                                    b.portfolio)
      IN  sized.num % sized.den = 0

\* the day up to the entry step: prices, exits (none), signals
InitAllIn ==
  /\ \E b0 \in AllInBacktesters, row \in RunRows, fires \in FireChoices :
       LET b == generate_signals_step(process_exits(get_current_prices_step(b0, row)),
                                      fires)
       IN  /\ SizesExact(b)
           /\ portfolio = b.portfolio
           /\ exit_rules = b.exit_rules
           /\ run = b.run
  /\ last = NoCall
  /\ decision = NoDecision
  /\ twin = <<>>

EnterAllIn ==
  /\ run.pc = "entries"
  /\ Becomes(process_entries(Self), twin)

NextAllIn == EnterAllIn

SpecAllIn == InitAllIn /\ [][NextAllIn]_vars

\* ------------------------------------------------- generate_signals alone
\* SpecSignals: one call of Strategy.generate_signals, for strategies of three
\* entry rules over the two tickers in either universe order, and any set of
\* (ticker, rule) pairs whose should_enter returns a signal.
SignalPriorities == {1, 2}
SignalUniverses == {<<"A", "B">>, <<"B", "A">>}
SignalStrategies ==
  {[universe |-> u,
    entry_rules |-> <<EntryRule("r1", p1), EntryRule("r2", p2), EntryRule("r3", p3)>>,
    position_sizer |-> FixedShares(ShareScale)] :
     u \in SignalUniverses, p1 \in SignalPriorities, p2 \in SignalPriorities,
     p3 \in SignalPriorities}
SignalFires == SUBSET (Tickers \X {"r1", "r2", "r3"})

InitSignals ==
  /\ portfolio = NewPortfolio(RunDollars * Dollar, 1, [commission |-> 0, slippage_pct |-> 0],
                              FALSE, 0)
  /\ exit_rules = TimeBasedExit(1)
  /\ \E st \in SignalStrategies :
       run = [pc |-> "signals", day |-> 1, strategy |-> st,
              end_in_index |-> FALSE, current_prices |-> NoPrices, signals |-> <<>>,
              positions_to_exit |-> <<>>, attempted |-> <<>>, entered |-> <<>>,
              exits_done |-> TRUE]
  /\ last = NoCall
  /\ decision = NoDecision
  /\ twin = <<>>

\* signals = self.strategy.generate_signals(...); last keeps what should_enter
\* answered for this call
GenerateSignalsFor ==
  /\ run.pc = "signals"
  /\ \E fires \in SignalFires :
       /\ run' = generate_signals_step(Self, fires).run
       /\ last' = [op |-> "generate_signals", fires |-> fires]
  /\ UNCHANGED <<portfolio, exit_rules, decision, twin>>

NextSignals == GenerateSignalsFor

SpecSignals == InitSignals /\ [][NextSignals]_vars

\* ---------------------------------------------------------------- EntryRule
\* What a Calculation returns: a number, or None when the data is unavailable.
Value(v) == [missing |-> FALSE, value |-> v]
None == [missing |-> TRUE, value |-> 0]

\* calculation.calculate(ticker, date, data_provider, portfolio): the provider's
\* datum for that ticker and date, one per Calculation class
Calculation(type) == [type |-> type]
calculate(calculation, data_provider) == data_provider[calculation.type]

GreaterThan(threshold) == [type |-> "GreaterThan", threshold |-> threshold]
LessThan(threshold) == [type |-> "LessThan", threshold |-> threshold]
Between(min_val, max_val) == [type |-> "Between", min_val |-> min_val, max_val |-> max_val]

check(condition, v) ==
  /\ ~v.missing
  /\ CASE condition.type = "GreaterThan" -> v.value > condition.threshold
        [] condition.type = "LessThan" -> v.value < condition.threshold
        [] condition.type = "Between" ->
             condition.min_val <= v.value /\ v.value <= condition.max_val

\* the rule with its calculation and condition, and the all-of composite
SingleEntryRule(calculation, condition, signal_type, priority) ==
  [type |-> "EntryRule", calculation |-> calculation, condition |-> condition,
   signal_type |-> signal_type, priority |-> priority]
CompositeEntryRule(calc_condition_pairs, signal_type, priority) ==
  [type |-> "CompositeEntryRule", pairs |-> calc_condition_pairs,
   signal_type |-> signal_type, priority |-> priority]

Signal(ticker, date, signal_type, metadata, priority) ==
  [none |-> FALSE, ticker |-> ticker, date |-> date, signal_type |-> signal_type,
   metadata |-> metadata, priority |-> priority]
NoSignal == [none |-> TRUE]

\* should_enter answers with a Signal or None; calls counts the calculate()
\* calls it made
Entered(signal, calls) == [signal |-> signal, calls |-> calls]

\* the loop of CompositeEntryRule.should_enter from the k-th pair on
RECURSIVE EnterLoop_all_pairs(_, _, _, _, _, _)
EnterLoop_all_pairs(rule, ticker, date, data_provider, k, metadata) ==
  LET n == Len(rule.pairs)
      ok == \A j \in 1..n : /\ ~calculate(rule.pairs[j][1], data_provider).missing
                             /\ check(rule.pairs[j][2], calculate(rule.pairs[j][1], data_provider))
      all == [c \in {rule.pairs[j][1].type : j \in 1..n} |-> data_provider[c].value]
  IN  IF ok THEN Entered(Signal(ticker, date, rule.signal_type, all, rule.priority), n)
      ELSE Entered(NoSignal, n)
RECURSIVE EnterLoop(_, _, _, _, _, _)
EnterLoop(rule, ticker, date, data_provider, k, metadata) ==
  IF k > Len(rule.pairs)
  THEN Entered(Signal(ticker, date, rule.signal_type, metadata, rule.priority), k - 1)
  ELSE
    LET calc == rule.pairs[k][1]
        cond == rule.pairs[k][2]
        value == calculate(calc, data_provider)
    IN  IF value.missing \/ ~check(cond, value)
        THEN Entered(NoSignal, k)
        ELSE EnterLoop(rule, ticker, date, data_provider, k + 1,
                       [c \in DOMAIN metadata \cup {calc.type} |->
                          IF c = calc.type THEN value.value ELSE metadata[c]])

should_enter(rule, ticker, date, data_provider) ==
  IF rule.type = "EntryRule"
  THEN LET value == calculate(rule.calculation, data_provider)
       IN  IF ~value.missing /\ check(rule.condition, value)
           THEN Entered(Signal(ticker, date, rule.signal_type,
                               [calculation |-> rule.calculation.type,
                                condition |-> rule.condition,
                                value |-> value.value],
                               rule.priority), 1)
           ELSE Entered(NoSignal, 1)
  ELSE EnterLoop(rule, ticker, date, data_provider, 1, [c \in {} |-> 0])

\* ---------------------------------------------------- should_enter alone
\* SpecEntry: one call of should_enter, on single rules and on composites of up
\* to MaxPairs pairs, with every datum present or missing.
Calculations == {"EarningsSurprise", "PERatio"}
Conditions == {GreaterThan(5), LessThan(20), Between(5, 20)}
Data == {None, Value(0), Value(5), Value(20), Value(25)}
Pairs == {<<Calculation(c), cond>> : c \in Calculations, cond \in Conditions}
PairLists == UNION {[1..n -> Pairs] : n \in 0..MaxPairs}
EntryRules ==
  {SingleEntryRule(pair[1], pair[2], "single", priority) :
     pair \in Pairs, priority \in SignalPriorities}
    \cup {CompositeEntryRule(pairs, "composite", 3) : pairs \in PairLists}

InitEntry ==
  /\ portfolio = NewPortfolio(StartDollars * Dollar, 1,
                              [commission |-> 0, slippage_pct |-> 0], TRUE, 0)
  /\ last = NoCall
  /\ exit_rules = NoRuleObject
  /\ decision = NoDecision
  /\ run = NoRun
  /\ twin = <<>>

\* rule.should_enter(ticker, date, data_provider, portfolio)
ShouldEnter ==
  /\ last.op = "init"
  /\ \E rule \in EntryRules, data_provider \in [Calculations -> Data], ticker \in Tickers :
       LET r == should_enter(rule, ticker, 1, data_provider)
       IN  last' = [op |-> "should_enter", rule |-> rule, ticker |-> ticker,
                    data_provider |-> data_provider,
                    signal |-> r.signal, calls |-> r.calls]
  /\ UNCHANGED <<portfolio, exit_rules, decision, run, twin>>

NextEntry == ShouldEnter

SpecEntry == InitEntry /\ [][NextEntry]_vars

\* ------------------------------------------------------- get_earnings_data
\* Timestamps count instants, DayParts to the day; pd.Timestamp(as_of_date) is
\* the first instant of its day.
Timestamp(day, part) == day * DayParts + part
StaleDays == 90

NaN == [nan |-> TRUE, v |-> 0]
Eps(v) == [nan |-> FALSE, v |-> v]

NoEarnings == [none |-> TRUE]

\* (as_of_datetime - most_recent.name).days
DaysBetween(later, earlier) == (later - earlier) \div DayParts

\* earnings: the cached earnings_dates table, a function from the timestamps of
\* its index to the row [reported, estimate]
fetch_earnings_data(earnings, as_of_date) ==
  LET as_of_datetime == Timestamp(as_of_date, 0)
      past_earnings == {t \in DOMAIN earnings : t < as_of_datetime}
  IN  IF DOMAIN earnings = {} THEN NoEarnings
      ELSE IF past_earnings = {} THEN NoEarnings
      ELSE
        LET name == CHOOSE t \in past_earnings : \A u \in past_earnings : u <= t
            most_recent == earnings[name]
            reported == most_recent.reported
            estimate == most_recent.estimate
        IN  IF DaysBetween(as_of_datetime, name) > StaleDays THEN NoEarnings
            ELSE IF reported.nan \/ estimate.nan THEN NoEarnings
            ELSE [none |-> FALSE,
                  reported_eps |-> reported.v,
                  estimated_eps |-> estimate.v,
                  earnings_date |-> name,
                  surprise_pct |->
                    IF estimate.v >= 0
                    THEN [num |-> reported.v - estimate.v, den |-> estimate.v]
                    ELSE [num |-> -(reported.v - estimate.v), den |-> -estimate.v]]

\* SpecEarnings: one lookup in a table of up to MaxRecords records stamped
\* around the query dates and around the staleness window before them.
EarningsDays == {9, 10, 50, 100, 101}
EarningsTimes == {Timestamp(day, part) : day \in EarningsDays, part \in 0..(DayParts - 1)}
EarningsRows == {[reported |-> Eps(3), estimate |-> Eps(2)],
                 [reported |-> Eps(1), estimate |-> Eps(-2)],
                 [reported |-> NaN, estimate |-> Eps(2)]}
EarningsTables ==
  UNION {[index -> EarningsRows] :
           index \in {i \in SUBSET EarningsTimes : Cardinality(i) <= MaxRecords}}
AsOfDates == {100, 101}

InitEarnings ==
  /\ portfolio = NewPortfolio(StartDollars * Dollar, 1,
                              [commission |-> 0, slippage_pct |-> 0], TRUE, 0)
  /\ last = NoCall
  /\ exit_rules = NoRuleObject
  /\ decision = NoDecision
  /\ run = NoRun
  /\ twin = <<>>

\* provider.get_earnings_data(ticker, as_of_date)
GetEarningsData ==
  /\ last.op = "init"
  /\ \E earnings \in EarningsTables, as_of_date \in AsOfDates :
       last' = [op |-> "get_earnings_data", earnings |-> earnings,
                as_of_date |-> as_of_date,
                ret |-> fetch_earnings_data(earnings, as_of_date)]
  /\ UNCHANGED <<portfolio, exit_rules, decision, run, twin>>

NextEarnings == GetEarningsData

SpecEarnings == InitEarnings /\ [][NextEarnings]_vars

\* ------------------------------------------------- calculate_shares alone
\* SpecSizer: calls of calculate_shares on sizers of every variant, with valid
\* and invalid prices, cash and portfolio value positive, zero and negative,
\* with and without the portfolio argument.
Sizers ==
  { FixedDollarAmount(3 * Dollar), FixedDollarAmount(7 * Dollar),
    PercentPortfolio(50), PercentPortfolio(PctDen),
    PercentAvailableCash(50), PercentAvailableCash(PctDen),
    EqualWeight(1), EqualWeight(10),
    FixedShares(ShareScale), FixedShares(3 * ShareScale),
    RiskParity(3 * Dollar, 20, 2) }
SizerPrices == {-1, 0, 1, 3}
SizerCash == {-Dollar, 0, 2 * Dollar, 5 * Dollar}
SizerValues == {-Dollar, 0, 4 * Dollar, 12 * Dollar}

InitSizer ==
  /\ portfolio \in {NewPortfolio(StartDollars * Dollar, mp,
                                  [commission |-> 0, slippage_pct |-> 0], TRUE, 0) :
                       mp \in MaxPositionsSet}
  /\ last = NoCall
  /\ exit_rules = NoRuleObject
  /\ decision = NoDecision
  /\ run = NoRun
  /\ twin = <<>>

\* sizer.calculate_shares(price, available_cash, portfolio_value, portfolio)
CalculateShares ==
  /\ last.op = "init"
  /\ \E sizer \in Sizers, price \in SizerPrices, available_cash \in SizerCash,
        portfolio_value \in SizerValues, p \in {NoPortfolio, portfolio} :
       LET sized == calculate_shares(sizer, price, available_cash, portfolio_value, p)
       IN  last' = [op |-> "calculate_shares", sizer |-> sizer, price |-> price,
                    available_cash |-> available_cash,
                    portfolio_value |-> portfolio_value,
                    with_portfolio |-> p = portfolio,
                    ret |-> sized.ret, num |-> sized.num, den |-> sized.den]
  /\ UNCHANGED <<portfolio, exit_rules, decision, run, twin>>

NextSizer == CalculateShares

SpecSizer == InitSizer /\ [][NextSizer]_vars

\* =================================================================== claims
RoundTripsOf(p) ==
  {p.open_roundtrips[i] : i \in DOMAIN p.open_roundtrips}
    \cup {p.closed_roundtrips[i] : i \in DOMAIN p.closed_roundtrips}

\* sum of f over the transactions of the flat log
LogSum(p, f(_)) == SumSeq([i \in DOMAIN p.transaction_log |-> f(p.transaction_log[i])])

\* C1. Cash conservation: in every state reached by any sequence of open, add,
\* reduce and close calls (successful, refused or raising), cash is the starting
\* capital plus the net amounts of the log, which is the starting capital minus
\* the entry costs of the recorded open/add transactions plus the exit proceeds
\* of the recorded reduce transactions, under every cost configuration.
CashConservation ==
  LET NetAmount(t) == t.net_amount
      EntryCost(t) == IF IsEntry(t)
                      THEN calculate_entry_cost(portfolio.transaction_cost, t.shares, t.price)
                      ELSE 0
      ExitProceeds(t) == IF IsEntry(t) THEN 0
                         ELSE calculate_exit_value(portfolio.transaction_cost, t.shares, t.price)
  IN  /\ portfolio.cash = portfolio.starting_capital + LogSum(portfolio, NetAmount)
      /\ portfolio.cash = portfolio.starting_capital
                            - LogSum(portfolio, EntryCost) + LogSum(portfolio, ExitProceeds)

\* C1 witness: a zero-cost ledger that has bought and sold and then seen a call raise
CashConservationWitness ==
  /\ portfolio.transaction_cost = [commission |-> 0, slippage_pct |-> 0]
  /\ \E j \in DOMAIN portfolio.transaction_log :
       portfolio.transaction_log[j].transaction_type = "reduce"
  /\ Raised(last)
  /\ portfolio.cash # portfolio.starting_capital

\* C2. Share conservation: for every round trip of the ledger, remaining_shares
\* is the open/add shares the log records for it minus the reduce/close shares
\* the log records for it, and is never negative; and a reduce_position call
\* for more shares than an open round trip has left raises ValueError and
\* changes nothing.
ShareConservation ==
  /\ \A rt \in RoundTripsOf(portfolio) :
       LET Bought(t) == IF t.roundtrip_id = rt.id /\ t.transaction_type \in {"open", "add"}
                        THEN t.shares ELSE 0
           Sold(t) == IF t.roundtrip_id = rt.id /\ t.transaction_type \in {"reduce", "close"}
                      THEN t.shares ELSE 0
       IN  /\ remaining_shares(rt) = LogSum(portfolio, Bought) - LogSum(portfolio, Sold)
           /\ remaining_shares(rt) >= 0
  /\ \A i \in DOMAIN portfolio.open_roundtrips :
       \A date \in ApiDates, price \in ApiPrices,
          shares \in ApiShares \cup {remaining_shares(portfolio.open_roundtrips[i]) + 1} :
         shares > remaining_shares(portfolio.open_roundtrips[i]) =>
           LET r == reduce_position(portfolio, portfolio.open_roundtrips[i].id,
                                    date, price, shares, "exit")
           IN  r.ret = "ValueError: Cannot exit" /\ r.portfolio = portfolio

\* C2 witness: a partly sold round trip for which a too large reduce has raised
ShareConservationWitness ==
  /\ last.op = "reduce_position"
  /\ last.ret = "ValueError: Cannot exit"
  /\ \E i \in DOMAIN portfolio.open_roundtrips :
       /\ portfolio.open_roundtrips[i].id = last.id
       /\ remaining_shares(portfolio.open_roundtrips[i])
            < total_shares(portfolio.open_roundtrips[i])

\* C3. Capacity: the number of open round trips never exceeds max_positions, and
\* at capacity every open_position call returns None and changes nothing.
CapacityInvariant ==
  /\ Len(portfolio.open_roundtrips) <= portfolio.max_positions
  /\ Len(portfolio.open_roundtrips) = portfolio.max_positions =>
       \A ticker \in Tickers, date \in ApiDates, price \in ApiPrices, shares \in ApiShares :
         LET r == open_position(portfolio, ticker, date, price, shares, NoRule)
         IN  r.ret = "None" /\ r.portfolio = portfolio

\* C3 witness: a full portfolio (two positions) that could pay for another
\* position has refused an open_position call
CapacityWitness ==
  /\ last.op = "open_position"
  /\ last.ret = "None"
  /\ Len(portfolio.open_roundtrips) = portfolio.max_positions
  /\ portfolio.max_positions = 2
  /\ portfolio.cash >= calculate_entry_cost(portfolio.transaction_cost, ShareScale \div 2, 1)

\* C4 (as claimed). No single ledger operation takes cash from >= 0 to < 0, so
\* cash >= 0 in every state reachable from a positive starting capital.
CashNeverNegative == portfolio.cash >= 0

\* C5. Round-trip lifecycle: every round trip the log knows is in exactly one of
\* open_roundtrips (remaining_shares > 0) and closed_roundtrips
\* (remaining_shares = 0), at most once in each; closed_roundtrips only grows
\* at its end, by the round trip a reduce_position step has just brought to 0,
\* and a closed round trip never returns to open_roundtrips.
LifecycleInv ==
  /\ \A i \in DOMAIN portfolio.open_roundtrips :
       /\ remaining_shares(portfolio.open_roundtrips[i]) > 0
       /\ portfolio.open_roundtrips[i].id \notin ClosedIds(portfolio)
  /\ \A i \in DOMAIN portfolio.closed_roundtrips :
       remaining_shares(portfolio.closed_roundtrips[i]) = 0
  /\ \A i, j \in DOMAIN portfolio.closed_roundtrips :
       portfolio.closed_roundtrips[i].id = portfolio.closed_roundtrips[j].id => i = j
  /\ \A i, j \in DOMAIN portfolio.open_roundtrips :
       portfolio.open_roundtrips[i].id = portfolio.open_roundtrips[j].id => i = j
  /\ \A k \in DOMAIN portfolio.transaction_log :
       portfolio.transaction_log[k].roundtrip_id
         \in OpenIds(portfolio) \cup ClosedIds(portfolio)

LifecycleStep ==
  /\ Len(portfolio'.closed_roundtrips) >= Len(portfolio.closed_roundtrips)
  /\ SubSeq(portfolio'.closed_roundtrips, 1, Len(portfolio.closed_roundtrips))
       = portfolio.closed_roundtrips
  /\ Len(portfolio'.closed_roundtrips) <= Len(portfolio.closed_roundtrips) + 1
  /\ Len(portfolio'.closed_roundtrips) > Len(portfolio.closed_roundtrips) =>
       LET rt == portfolio'.closed_roundtrips[Len(portfolio'.closed_roundtrips)]
       IN  /\ rt.id \in OpenIds(portfolio)
           /\ rt.id \notin OpenIds(portfolio')
           /\ rt.transactions[Len(rt.transactions)].transaction_type = "reduce"
           /\ rt.transactions[Len(rt.transactions)]
                = portfolio'.transaction_log[Len(portfolio'.transaction_log)]
           /\ Len(portfolio'.transaction_log) = Len(portfolio.transaction_log) + 1

RoundTripLifecycle == []LifecycleInv /\ [][LifecycleStep]_vars

\* C5 witness: a round trip sold in two steps is closed, and another one is open
RoundTripLifecycleWitness ==
  /\ Len(portfolio.closed_roundtrips) = 1
  /\ Len(portfolio.closed_roundtrips[1].transactions) = 3
  /\ last.op = "reduce_position"
  /\ last.ret = "float"
  /\ last.id = portfolio.closed_roundtrips[1].id

\* C6. Idempotent closure: a round trip whose remaining_shares is 0 is in
\* closed_roundtrips and not in open_roundtrips, and every reduce_position,
\* close_position and add_to_position call with its id raises ValueError and
\* changes nothing.
IdempotentClosure ==
  \A rt \in RoundTripsOf(portfolio) :
    remaining_shares(rt) = 0 =>
      /\ rt.id \in ClosedIds(portfolio)
      /\ rt.id \notin OpenIds(portfolio)
      /\ \A date \in ApiDates, price \in ApiPrices, shares \in ApiShares :
           LET r1 == reduce_position(portfolio, rt.id, date, price, shares, "exit")
               r2 == close_position(portfolio, rt.id, date, price, "exit")
               r3 == add_to_position(portfolio, rt.id, date, price, shares, "add")
           IN  /\ Raised(r1) /\ r1.portfolio = portfolio
               /\ Raised(r2) /\ r2.portfolio = portfolio
               /\ Raised(r3) /\ r3.portfolio = portfolio

\* C6 witness: after a close, a further call on the closed id has raised
IdempotentClosureWitness ==
  /\ last.id \in ClosedIds(portfolio)
  /\ last.op \in {"reduce_position", "close_position", "add_to_position"}
  /\ last.ret = "ValueError: not found"


\* C7. Exit-before-entry ordering: on every simulated day the exits the exit
\* rules decide are applied to the ledger before the entry signals are
\* generated and before any open_position call, so that signals and entries see
\* the cash and the slots left by the exits; generating signals and entering
\* sell nothing; and in the transaction log no exit-rule transaction of a date
\* follows an open transaction of the same date.
ExitsApplied ==
  run.pc \in {"signals", "entries"} =>
    /\ run.exits_done
    /\ \A k \in DOMAIN run.positions_to_exit :
         \E j \in DOMAIN portfolio.transaction_log :
           LET t == portfolio.transaction_log[j]
               e == run.positions_to_exit[k]
           IN  /\ t.roundtrip_id = e.rt_id
               /\ t.transaction_type = "reduce"
               /\ t.date = run.day
               /\ t.price = e.price
               /\ t.reason = e.reason

NoExitAfterOpen ==
  \A i \in DOMAIN portfolio.transaction_log, j \in DOMAIN portfolio.transaction_log :
    LET o == portfolio.transaction_log[i]
        x == portfolio.transaction_log[j]
    IN  (i < j /\ o.transaction_type = "open" /\ x.transaction_type = "reduce"
           /\ x.date = o.date)
          => x.reason = "backtest_end"

EntryStepsSellNothing ==
  run.pc \in {"signals", "entries"} =>
    /\ \A j \in DOMAIN portfolio'.transaction_log :
         j > Len(portfolio.transaction_log) =>
           portfolio'.transaction_log[j].transaction_type = "open"
    /\ run.pc = "signals" => portfolio' = portfolio

ExitBeforeEntry ==
  [](ExitsApplied /\ NoExitAfterOpen) /\ [][EntryStepsSellNothing]_vars

\* C7 witness: with a single slot, a position was exited on day 2 and the slot
\* it freed was taken by an entry of the same day
ExitBeforeEntryWitness ==
  /\ run.pc = "equity"
  /\ portfolio.max_positions = 1
  /\ \E i \in DOMAIN portfolio.transaction_log, j \in DOMAIN portfolio.transaction_log :
       /\ i < j
       /\ portfolio.transaction_log[i].transaction_type = "reduce"
       /\ portfolio.transaction_log[i].date = 2
       /\ portfolio.transaction_log[j].transaction_type = "open"
       /\ portfolio.transaction_log[j].date = 2

\* C8. Priority resolution: the entry step attempts signals in non-increasing
\* priority order; when exactly one slot is free and two signals of different
\* priority for two priced tickers are both affordable, the ticker of the
\* higher-priority signal is entered and the other ticker is not entered that day.
Affordable(signal) ==
  LET price == run.current_prices[signal.ticker]
      shares == ShareUnits(
                  calculate_shares(run.strategy.position_sizer, price, portfolio.cash,
                                   calculate_portfolio_value(portfolio, run.current_prices),
                                   portfolio))
  IN  /\ shares > 0
      /\ calculate_entry_cost(portfolio.transaction_cost,
                              round_shares(portfolio, shares), price) <= portfolio.cash

NonIncreasing(signals) ==
  \A i \in DOMAIN signals, j \in DOMAIN signals :
    i < j => signals[i].priority >= signals[j].priority

OpenedToday(p, ticker, date) ==
  \E j \in DOMAIN p.transaction_log :
    /\ p.transaction_log[j].transaction_type = "open"
    /\ p.transaction_log[j].ticker = ticker
    /\ p.transaction_log[j].date = date

OneSlotStep ==
  (run.pc = "entries"
     /\ Len(portfolio.open_roundtrips) + 1 = portfolio.max_positions) =>
    \A h \in DOMAIN run.signals, l \in DOMAIN run.signals :
      LET hi == run.signals[h]
          lo == run.signals[l]
      IN  (/\ hi.priority > lo.priority
           /\ hi.ticker # lo.ticker
           /\ hi.ticker \in DOMAIN run.current_prices
           /\ lo.ticker \in DOMAIN run.current_prices
           /\ Affordable(hi) /\ Affordable(lo)
           /\ \A m \in DOMAIN run.signals : run.signals[m].priority <= hi.priority)
          => /\ OpenedToday(portfolio', hi.ticker, run.day)
             /\ ~OpenedToday(portfolio', lo.ticker, run.day)
             /\ run'.entered = <<hi>>

PriorityResolution ==
  [](NonIncreasing(run.attempted) /\ NonIncreasing(run.signals))
    /\ [][OneSlotStep]_vars

\* C8 witness: with one slot, the lower-priority signal was discovered first
\* (ticker A), both tickers were priced and affordable, and B was entered alone
PriorityResolutionWitness ==
  /\ run.pc = "equity"
  /\ run.day = 1
  /\ portfolio.max_positions = 1
  /\ Len(run.signals) = 2
  /\ run.signals[1].ticker = "B" /\ run.signals[2].ticker = "A"
  /\ run.signals[1].priority > run.signals[2].priority
  /\ {"A", "B"} \subseteq DOMAIN run.current_prices
  /\ calculate_entry_cost(portfolio.transaction_cost, ShareScale,
                          run.current_prices["A"]) <= portfolio.starting_capital
  /\ run.attempted = <<run.signals[1]>>
  /\ run.entered = <<run.signals[1]>>
  /\ Len(portfolio.open_roundtrips) = 1
  /\ portfolio.open_roundtrips[1].ticker = "B"

\* C9. Determinism: two runs of Backtester.run on the same price series, rule
\* configuration, rounding mode, costs and capacity end with identical
\* transaction logs, identifiers included, and identical equity histories.
Determinism ==
  (twin # <<>> /\ run.pc = "done") =>
    /\ twin[1].portfolio.transaction_log = portfolio.transaction_log
    /\ twin[1].portfolio.equity_history = portfolio.equity_history

\* what the two runs do share: everything but the identifiers
Anonymous(log) ==
  [j \in DOMAIN log |-> [ticker |-> log[j].ticker, date |-> log[j].date,
                         transaction_type |-> log[j].transaction_type,
                         shares |-> log[j].shares, price |-> log[j].price,
                         net_amount |-> log[j].net_amount, reason |-> log[j].reason]]

SameUpToIdentifiers ==
  twin # <<>> =>
    /\ Anonymous(twin[1].portfolio.transaction_log) = Anonymous(portfolio.transaction_log)
    /\ twin[1].portfolio.equity_history = portfolio.equity_history
    /\ twin[1].portfolio.cash = portfolio.cash
    /\ twin[1].run.pc = run.pc
    /\ twin[1].run.entered = run.entered

\* C10. Composite exit precedence: a composite rule evaluates its (rule, portion)
\* entries in list order and answers with the first sub-rule that fires, giving
\* that sub-rule's reason and the portion of its composite entry (not the
\* sub-rule's own portion); when no sub-rule fires it answers (False, 0.0, "").
\* For [(StopLoss 8%, 1.0), (TimeBased 30, 1.0)]: a position down 10% on day 10
\* exits with "stop_loss", a flat position on day 35 with "time_exit".
FirstWinsStep ==
  LET d == decision'
      rt == portfolio.open_roundtrips[d.roundtrip]
      sub(k) == should_exit(exit_rules.rules[k].rule, rt, d.date, d.price)
      firing == {k \in DOMAIN exit_rules.rules : sub(k).fires}
      first == CHOOSE k \in firing : \A j \in firing : k <= j
  IN  exit_rules.type = "CompositeExitRule" =>
        IF firing = {}
        THEN ~d.fires /\ d.portion = 0 /\ d.reason = ""
        ELSE /\ d.fires
             /\ d.reason = sub(first).reason
             /\ d.portion = exit_rules.rules[first].portion

StopThenTime ==
  CompositeExitRule(<<Slot(StopLossExit(8), Full), Slot(TimeBasedExit(30), Full)>>)

CompositeExample ==
  LET rt == portfolio.open_roundtrips[IF decision.n = 0 THEN 1 ELSE decision.roundtrip]
      avg == average_entry_price(rt)
      down10 == decision.price * avg.den * 10 = avg.num * 9
      flat == decision.price * avg.den = avg.num
  IN  (decision.n > 0 /\ exit_rules = StopThenTime) =>
        /\ (down10 /\ decision.date = 10) =>
             (decision.fires /\ decision.reason = "stop_loss" /\ decision.portion = Full)
        /\ (flat /\ decision.date = 35) =>
             (decision.fires /\ decision.reason = "time_exit" /\ decision.portion = Full)

CompositePrecedence == []CompositeExample /\ [][FirstWinsStep]_vars

\* C10 witness: a composite whose first entry did not fire answered with its
\* second entry, and one whose sub-rule's own portion differs from the entry's
\* portion has fired
CompositePrecedenceWitness ==
  /\ decision.n = MaxEvals
  /\ exit_rules.type = "CompositeExitRule"
  /\ decision.fires
  /\ \/ /\ exit_rules = StopThenTime
        /\ decision.reason = "time_exit"
     \/ /\ exit_rules.rules[1].rule.type = "ProfitTargetExit"
        /\ decision.reason = "profit_target"
        /\ decision.portion = Half
        /\ exit_rules.rules[1].rule.portion = Full


\* C11. Trailing stop: for each round-trip id a TrailingStopExit keeps a peak
\* that starts at the round trip's average_entry_price on its first evaluation,
\* is max(previous peak, price) after every evaluation, firing or not, never
\* decreases, and is not changed by evaluating another round trip; the rule
\* fires (portion 1.0, reason "trailing_stop") exactly when
\* (peak - price)/peak >= trailing_pct with the updated peak.  Entry 100, peak
\* 150, trailing_pct 0.10: a price of 135 fires, a price of 137 does not.
QLess(a, b) == a.num * b.den < b.num * a.den
QSame(a, b) == a.num * b.den = b.num * a.den

TrailingStep ==
  exit_rules.type = "TrailingStopExit" =>
    LET d == decision'
        rt == portfolio.open_roundtrips[d.roundtrip]
        before == exit_rules.peak_prices
        after == exit_rules'.peak_prices
        previous == IF rt.id \in DOMAIN before
                    THEN before[rt.id] ELSE average_entry_price(rt)
        price == [num |-> d.price, den |-> 1]
    IN  /\ DOMAIN after = DOMAIN before \cup {rt.id}
        /\ \A other \in DOMAIN before \ {rt.id} : after[other] = before[other]
        /\ IF QLess(previous, price)
           THEN QSame(after[rt.id], price)
           ELSE QSame(after[rt.id], previous)
        /\ ~QLess(after[rt.id], previous)
        /\ d.fires <=>
             (after[rt.id].num - d.price * after[rt.id].den) * PctDen
               >= exit_rules.n * after[rt.id].num
        /\ IF d.fires
           THEN d.portion = Full /\ d.reason = "trailing_stop"
           ELSE d.portion = 0 /\ d.reason = ""

TrailingExample ==
  (decision.n > 0 /\ exit_rules.type = "TrailingStopExit" /\ exit_rules.n * 10 = PctDen) =>
    LET rt == portfolio.open_roundtrips[decision.roundtrip]
        entry100 == average_entry_price(rt).num = 100 * average_entry_price(rt).den
        peak150 == QSame(exit_rules.peak_prices[rt.id], [num |-> 150, den |-> 1])
    IN  (entry100 /\ peak150) =>
          /\ decision.price = 135 => decision.fires
          /\ decision.price = 137 => ~decision.fires

TrailingStop == []TrailingExample /\ [][TrailingStep]_vars

\* C11 witness: the position entered at 100 was seen at 150 without firing and
\* then at 135, where the rule fired on the peak of 150
TrailingStopWitness ==
  /\ exit_rules.type = "TrailingStopExit"
  /\ decision.n = 2
  /\ decision.roundtrip = 1
  /\ average_entry_price(portfolio.open_roundtrips[1]).num
       = 100 * average_entry_price(portfolio.open_roundtrips[1]).den
  /\ exit_rules.peak_prices[portfolio.open_roundtrips[1].id] = [num |-> 150, den |-> 1]
  /\ decision.price = 135
  /\ decision.fires
  /\ decision.reason = "trailing_stop"


\* C12 (as claimed). open_position returns None and leaves cash, open_roundtrips,
\* closed_roundtrips and transaction_log unchanged when the share quantity is
\* <= 0 after rounding, when the portfolio is at capacity, or when the entry
\* cost shares*price*(1+slippage)+commission exceeds current cash; in every
\* other case it debits cash by exactly the entry cost, registers one new open
\* round trip holding a single "open" transaction, and appends it to the log.
WholeDown(p, shares) ==
  IF p.fractional_shares THEN shares ELSE shares - (shares % ShareScale)

EntryCostOf(p, shares, price) ==
  shares * price * (SlipDen + p.transaction_cost.slippage_pct) + p.transaction_cost.commission

SameLedger(p, q) ==
  /\ p.cash = q.cash
  /\ p.open_roundtrips = q.open_roundtrips
  /\ p.closed_roundtrips = q.closed_roundtrips
  /\ p.transaction_log = q.transaction_log

Opened(p, r, ticker, date, price, shares) ==
  LET q == r.portfolio
      n == Len(q.open_roundtrips)
      t == q.transaction_log[Len(q.transaction_log)]
  IN  /\ r.ret = "RoundTrip"
      /\ q.cash = p.cash - EntryCostOf(p, shares, price)
      /\ n = Len(p.open_roundtrips) + 1
      /\ SubSeq(q.open_roundtrips, 1, n - 1) = p.open_roundtrips
      /\ q.open_roundtrips[n].transactions = <<t>>
      /\ q.open_roundtrips[n].id = r.id
      /\ q.open_roundtrips[n].ticker = ticker
      /\ t.transaction_type = "open" /\ t.roundtrip_id = r.id
      /\ t.ticker = ticker /\ t.date = date /\ t.price = price /\ t.shares = shares
      /\ t.net_amount = -EntryCostOf(p, shares, price)
      /\ q.transaction_log = Append(p.transaction_log, t)
      /\ q.closed_roundtrips = p.closed_roundtrips

OpenPositionAsClaimed ==
  \A ticker \in ApiTickers, date \in ApiDates, price \in ApiPrices, requested \in ApiShares :
    LET r == open_position(portfolio, ticker, date, price, requested, NoRule)
        shares == WholeDown(portfolio, requested)
    IN  IF \/ shares <= 0
           \/ Len(portfolio.open_roundtrips) >= portfolio.max_positions
           \/ EntryCostOf(portfolio, shares, price) > portfolio.cash
        THEN r.ret = "None" /\ SameLedger(portfolio, r.portfolio)
        ELSE Opened(portfolio, r, ticker, date, price, shares)

\* C12 (amended). As claimed for a positive price; with a price <= 0, a positive
\* rounded quantity and a free slot, open_position raises ValueError and leaves
\* the ledger unchanged.
OpenPositionContract ==
  \A ticker \in ApiTickers, date \in ApiDates, price \in ApiPrices, requested \in ApiShares :
    LET r == open_position(portfolio, ticker, date, price, requested, NoRule)
        shares == WholeDown(portfolio, requested)
    IN  IF shares <= 0 \/ Len(portfolio.open_roundtrips) >= portfolio.max_positions
        THEN r.ret = "None" /\ SameLedger(portfolio, r.portfolio)
        ELSE IF price <= 0
        THEN r.ret = "ValueError: Price must be positive"
               /\ SameLedger(portfolio, r.portfolio)
        ELSE IF EntryCostOf(portfolio, shares, price) > portfolio.cash
        THEN r.ret = "None" /\ SameLedger(portfolio, r.portfolio)
        ELSE Opened(portfolio, r, ticker, date, price, shares)

\* C12 witness: after a successful open_position a slot is still free and the
\* cash left pays for some of the quantities that can be asked for, not for all
OpenPositionWitness ==
  /\ last.op = "open_position" /\ last.ret = "RoundTrip"
  /\ Len(portfolio.open_roundtrips) < portfolio.max_positions
  /\ ~portfolio.fractional_shares
  /\ \E price \in ApiPrices, requested \in ApiShares :
       /\ price > 0 /\ WholeDown(portfolio, requested) > 0
       /\ EntryCostOf(portfolio, WholeDown(portfolio, requested), price) > portfolio.cash
  /\ \E price \in ApiPrices, requested \in ApiShares :
       /\ price > 0 /\ WholeDown(portfolio, requested) > 0
       /\ EntryCostOf(portfolio, WholeDown(portfolio, requested), price) <= portfolio.cash


\* C13 (as claimed). add_to_position raises ValueError when the id is not an
\* open round trip; returns False with no state change when the rounded share
\* quantity is <= 0 or the entry cost exceeds the current cash; otherwise it
\* appends one "add" transaction to that round trip and to the log, debits cash
\* by the entry cost, returns True, and leaves the number of open round trips
\* unchanged.
Added(p, r, id, date, price, shares) ==
  LET q == r.portfolio
      i == IndexOf(p, id)
      t == q.transaction_log[Len(q.transaction_log)]
  IN  /\ r.ret = "True"
      /\ q.cash = p.cash - EntryCostOf(p, shares, price)
      /\ Len(q.open_roundtrips) = Len(p.open_roundtrips)
      /\ \A k \in DOMAIN p.open_roundtrips :
           k # i => q.open_roundtrips[k] = p.open_roundtrips[k]
      /\ q.open_roundtrips[i].id = id
      /\ q.open_roundtrips[i].transactions = Append(p.open_roundtrips[i].transactions, t)
      /\ t.transaction_type = "add" /\ t.roundtrip_id = id
      /\ t.ticker = p.open_roundtrips[i].ticker
      /\ t.date = date /\ t.price = price /\ t.shares = shares
      /\ t.net_amount = -EntryCostOf(p, shares, price)
      /\ q.transaction_log = Append(p.transaction_log, t)
      /\ q.closed_roundtrips = p.closed_roundtrips

AddToPositionAsClaimed ==
  \A id \in ApiIds, date \in ApiDates, price \in ApiPrices, requested \in ApiShares :
    LET r == add_to_position(portfolio, id, date, price, requested, "add")
        shares == WholeDown(portfolio, requested)
    IN  IF id \notin OpenIds(portfolio)
        THEN r.ret = "ValueError: not found" /\ SameLedger(portfolio, r.portfolio)
        ELSE IF shares <= 0 \/ EntryCostOf(portfolio, shares, price) > portfolio.cash
        THEN r.ret = "False" /\ SameLedger(portfolio, r.portfolio)
        ELSE Added(portfolio, r, id, date, price, shares)

\* C13 (amended). As claimed for a positive price; with a price <= 0 and a
\* positive rounded quantity, add_to_position on an open round trip raises
\* ValueError and leaves the ledger unchanged.
AddToPositionContract ==
  \A id \in ApiIds, date \in ApiDates, price \in ApiPrices, requested \in ApiShares :
    LET r == add_to_position(portfolio, id, date, price, requested, "add")
        shares == WholeDown(portfolio, requested)
    IN  IF id \notin OpenIds(portfolio)
        THEN r.ret = "ValueError: not found" /\ SameLedger(portfolio, r.portfolio)
        ELSE IF shares <= 0
        THEN r.ret = "False" /\ SameLedger(portfolio, r.portfolio)
        ELSE IF price <= 0
        THEN r.ret = "ValueError: Price must be positive"
               /\ SameLedger(portfolio, r.portfolio)
        ELSE IF EntryCostOf(portfolio, shares, price) > portfolio.cash
        THEN r.ret = "False" /\ SameLedger(portfolio, r.portfolio)
        ELSE Added(portfolio, r, id, date, price, shares)

\* C13 witness: after a successful add the round trip holds two entries and the
\* cash left pays for some further adds that can be asked for, not for all
AddToPositionWitness ==
  /\ last.op = "add_to_position" /\ last.ret = "True"
  /\ \E i \in DOMAIN portfolio.open_roundtrips :
       /\ portfolio.open_roundtrips[i].id = last.id
       /\ Len(portfolio.open_roundtrips[i].transactions) = 2
  /\ \E price \in ApiPrices, requested \in ApiShares :
       /\ price > 0 /\ WholeDown(portfolio, requested) > 0
       /\ EntryCostOf(portfolio, WholeDown(portfolio, requested), price) > portfolio.cash
  /\ \E price \in ApiPrices, requested \in ApiShares :
       /\ price > 0 /\ WholeDown(portfolio, requested) > 0
       /\ EntryCostOf(portfolio, WholeDown(portfolio, requested), price) <= portfolio.cash


\* the round trip with this id, wherever the portfolio keeps it
RoundTripOf(p, id) == CHOOSE rt \in RoundTripsOf(p) : rt.id = id

\* entry cost and entered shares of a round trip, read from the flat log
EnteredCost(p, id) ==
  LET Cost(t) == IF t.roundtrip_id = id /\ t.transaction_type \in {"open", "add"}
                 THEN -t.net_amount ELSE 0
  IN  LogSum(p, Cost)

EnteredShares(p, id) ==
  LET Shares(t) == IF t.roundtrip_id = id /\ t.transaction_type \in {"open", "add"}
                   THEN t.shares ELSE 0
  IN  LogSum(p, Shares)

\* the step recorded a sale
Sold ==
  /\ Len(portfolio'.transaction_log) = Len(portfolio.transaction_log) + 1
  /\ portfolio'.transaction_log[Len(portfolio'.transaction_log)].transaction_type = "reduce"

ReduceStep ==
  Sold =>
    LET t == portfolio'.transaction_log[Len(portfolio'.transaction_log)]
        id == t.roundtrip_id
        exit_value == portfolio'.cash - portfolio.cash
        cost == EnteredCost(portfolio, id)
        entered == EnteredShares(portfolio, id)
        before == average_entry_price(RoundTripOf(portfolio, id))
        after == average_entry_price(RoundTripOf(portfolio', id))
    IN  /\ last'.id = id /\ last'.ret = "float"
        /\ t.net_amount = exit_value
        /\ entered > 0
        \* pnl = exit_value - (cost / entered) * shares sold
        /\ last'.pnl.den > 0
        /\ last'.pnl.num * entered
             = (exit_value * entered - cost * t.shares) * last'.pnl.den
        \* the average entry price is cost / entered before and after the sale
        /\ before.den > 0 /\ after.den > 0
        /\ before.num * (SlipDen * entered) = cost * before.den
        /\ QSame(before, after)

\* C14. reduce_position returns exit_value - average_entry_price * shares_sold
\* for the slice sold, where exit_value is the net proceeds credited to cash and
\* average_entry_price is the round trip's cumulative entry cost divided by its
\* total entered shares at the time of the sale; the sale leaves the round
\* trip's average_entry_price as it was.
ReducePnl == [][ReduceStep]_vars

\* C14 witness: a partial sale out of a round trip entered twice at different
\* prices returned a P&L other than zero
ReducePnlWitness ==
  /\ last.op = "reduce_position" /\ last.ret = "float"
  /\ last.pnl.num # 0
  /\ \E i \in DOMAIN portfolio.open_roundtrips :
       LET txns == portfolio.open_roundtrips[i].transactions
       IN  /\ portfolio.open_roundtrips[i].id = last.id
           /\ Len(txns) = 3
           /\ txns[1].transaction_type = "open"
           /\ txns[2].transaction_type = "add"
           /\ txns[1].price # txns[2].price
           /\ txns[3].transaction_type = "reduce"


\* a round trip of one open, then adds only, then one sale of everything
OpenAddsClose(rt) ==
  LET n == Len(rt.transactions)
  IN  /\ n >= 2
      /\ rt.transactions[1].transaction_type = "open"
      /\ \A k \in 2..(n - 1) : rt.transactions[k].transaction_type = "add"
      /\ rt.transactions[n].transaction_type = "reduce"

ClosedAfterEntries ==
  /\ last.op = "close_position" /\ last.ret = "float"
  /\ \E rt \in RoundTripsOf(portfolio) : rt.id = last.id /\ OpenAddsClose(rt)

CloseAfterEntries ==
  ClosedAfterEntries =>
    LET p == portfolio
        rt == RoundTripOf(p, last.id)
        proceeds == rt.transactions[Len(rt.transactions)].net_amount
        only == \A k \in DOMAIN p.transaction_log :
                  p.transaction_log[k].roundtrip_id = last.id
    IN  /\ last.pnl.den > 0
        /\ last.pnl.num = (proceeds - EnteredCost(p, last.id)) * last.pnl.den
        /\ only => p.cash * last.pnl.den = p.starting_capital * last.pnl.den + last.pnl.num

\* zero costs, fractional shares: open 10 @ 100, add 5 @ 90, close all @ 110
DcaExample ==
  LET p0 == NewPortfolio(10000 * Dollar, 5, [commission |-> 0, slippage_pct |-> 0], TRUE, 0)
      opened == open_position(p0, "A", 1, 100, 10 * ShareScale, NoRule)
      added == add_to_position(opened.portfolio, opened.id, 15, 90, 5 * ShareScale, "add")
      closed == close_position(added.portfolio, opened.id, 30, 110, "exit")
  IN  /\ opened.portfolio.cash = 9000 * Dollar
      /\ added.ret = "True" /\ added.portfolio.cash = 8550 * Dollar
      /\ closed.ret = "float"
      /\ closed.pnl.num = 200 * Dollar * closed.pnl.den
      /\ closed.portfolio.cash = 10200 * Dollar
      /\ closed.portfolio.open_roundtrips = <<>>

\* C15. A round trip built from one open and any number of adds and then closed
\* by one close_position: the value close_position returns is the exit proceeds
\* minus the sum of all its entry costs, and when it is the portfolio's only
\* position cash ends at starting_capital plus that value; with zero costs, open
\* 10 @ 100, add 5 @ 90, close all @ 110 gives P&L 200 and cash 10200 from 10000.
ClosePnl == DcaExample /\ CloseAfterEntries

\* C15 witness: an open and an add at another price, closed at a profit or loss
ClosePnlWitness ==
  /\ ClosedAfterEntries
  /\ Len(portfolio.transaction_log) = 3
  /\ portfolio.transaction_log[1].price # portfolio.transaction_log[2].price
  /\ portfolio.transaction_log[2].roundtrip_id = last.id
  /\ last.pnl.num # 0


\* shares of a round trip not yet sold, read from the flat log
HeldShares(p, id) ==
  LET Sale(t) == IF t.roundtrip_id = id /\ t.transaction_type \in {"reduce", "close"}
                 THEN t.shares ELSE 0
  IN  EnteredShares(p, id) - LogSum(p, Sale)

\* C16. close_position(id, date, price, reason) has the same effect on the
\* ledger and the same return value (or exception) as reduce_position(id, date,
\* price, shares, reason) with shares the round trip's unsold shares; the
\* transaction recorded has type "reduce", and no transaction of type "close"
\* is ever recorded.
CloseIsReduce ==
  /\ \A k \in DOMAIN portfolio.transaction_log :
       portfolio.transaction_log[k].transaction_type \in {"open", "add", "reduce"}
  /\ \A rt \in RoundTripsOf(portfolio) : \A k \in DOMAIN rt.transactions :
       rt.transactions[k].transaction_type \in {"open", "add", "reduce"}
  /\ \A id \in ApiIds, date \in ApiDates, price \in ApiPrices :
       LET closed == close_position(portfolio, id, date, price, "exit")
       IN  IF id \in OpenIds(portfolio)
           THEN /\ closed = reduce_position(portfolio, id, date, price,
                                            HeldShares(portfolio, id), "exit")
                /\ closed.ret = "float" =>
                     LET log == closed.portfolio.transaction_log
                     IN  /\ Len(log) = Len(portfolio.transaction_log) + 1
                         /\ log[Len(log)].transaction_type = "reduce"
                         /\ log[Len(log)].shares = HeldShares(portfolio, id)
                         /\ id \in ClosedIds(closed.portfolio)
           ELSE /\ closed.ret = "ValueError: not found"
                /\ SameLedger(portfolio, closed.portfolio)
                /\ \A shares \in ApiShares :
                     closed = reduce_position(portfolio, id, date, price, shares, "exit")

\* C16 witness: close_position closed a round trip part of which had been sold
\* before, so what it sold is less than what was entered
CloseIsReduceWitness ==
  /\ last.op = "close_position" /\ last.ret = "float"
  /\ last.id \in ClosedIds(portfolio)
  /\ LET rt == RoundTripOf(portfolio, last.id)
     IN  /\ Len(rt.transactions) = 3
         /\ rt.transactions[2].transaction_type = "reduce"
         /\ rt.transactions[3].transaction_type = "reduce"
         /\ rt.transactions[3].shares < rt.transactions[1].shares


\* C17. Rounding policy: with fractional shares disabled, every share quantity
\* the ledger records (open, add and reduce alike, partial exits of the
\* backtester included) is a whole number of shares, so every round trip's
\* remaining_shares is a whole number.
WholeShares ==
  ~portfolio.fractional_shares =>
    /\ \A k \in DOMAIN portfolio.transaction_log :
         portfolio.transaction_log[k].shares % ShareScale = 0
    /\ \A rt \in RoundTripsOf(portfolio) : remaining_shares(rt) % ShareScale = 0


\* C18. Every transaction recorded by the Portfolio has shares > 0 and
\* price > 0, and the sign of its net_amount matches its type: strictly negative
\* for open/add, strictly positive for reduce/close, under every commission and
\* slippage setting.
NetAmountSign ==
  \A k \in DOMAIN portfolio.transaction_log :
    LET t == portfolio.transaction_log[k]
    IN  /\ t.shares > 0
        /\ t.price > 0
        /\ t.transaction_type \in {"open", "add"} => t.net_amount < 0
        /\ t.transaction_type \in {"reduce", "close"} => t.net_amount > 0


\* open and closed round trips, one after the other
AllRoundTrips(p) == p.open_roundtrips \o p.closed_roundtrips

\* the entries of the flat log that belong to one round trip, in log order
LogOf(p, id) == SelectSeq(p.transaction_log, LAMBDA t : t.roundtrip_id = id)

LogStructure ==
  LET rts == AllRoundTrips(portfolio)
      log == portfolio.transaction_log
  IN  /\ \A i, j \in DOMAIN rts : rts[i].id = rts[j].id => i = j
      /\ \A i \in DOMAIN rts : LogOf(portfolio, rts[i].id) = rts[i].transactions
      /\ \A k \in DOMAIN log : \E i \in DOMAIN rts : rts[i].id = log[k].roundtrip_id
      /\ \A k, m \in DOMAIN log : log[k].id = log[m].id => k = m

Chronological ==
  \A k \in 1..(Len(portfolio.transaction_log) - 1) :
    portfolio.transaction_log[k].date <= portfolio.transaction_log[k + 1].date

AppendOnlyStep ==
  /\ Len(portfolio'.transaction_log) >= Len(portfolio.transaction_log)
  /\ SubSeq(portfolio'.transaction_log, 1, Len(portfolio.transaction_log))
       = portfolio.transaction_log

\* C19. The flat transaction log is append-only and holds at all times exactly
\* the transactions of all open and closed round trips, each once, every round
\* trip's transactions in the same relative order as in the log; during a
\* backtest run the dates of the log entries are non-decreasing.
TransactionLogOrder ==
  [](LogStructure /\ Chronological) /\ [][AppendOnlyStep]_vars

\* C19 witness: the entries of one round trip, of different dates, lie on both
\* sides of an entry of another round trip
TransactionLogOrderWitness ==
  LET log == portfolio.transaction_log
  IN  \E i, j, k \in DOMAIN log :
        /\ i < j /\ j < k
        /\ log[i].roundtrip_id = log[k].roundtrip_id
        /\ log[j].roundtrip_id # log[i].roundtrip_id
        /\ log[i].date < log[k].date


\* one sample per trading day processed so far, in trading-day order
OneSamplePerDay ==
  LET history == portfolio.equity_history
  IN  /\ \A k \in DOMAIN history : history[k].date = k
      /\ run.pc \in Range(process_day) => Len(history) = run.day - 1
      /\ run.pc \in {"close_all", "done"} => Len(history) = MaxDays

\* a step that records a sample records one, of the current day, after the
\* day's exits and entries, and leaves the rest of the ledger alone; a step
\* that trades on a day comes before that day's sample
EquityStep ==
  LET before == portfolio.equity_history
      after == portfolio'.equity_history
      log == portfolio'.transaction_log
  IN  /\ after # before =>
            /\ run.pc = "equity" /\ run.exits_done
            /\ run'.pc \notin {"exits", "signals", "entries"} \/ run'.day = run.day + 1
            /\ after = Append(before,
                 [date |-> run.day,
                  value |-> portfolio.cash
                    + SumSeq([i \in DOMAIN portfolio.open_roundtrips |->
                        LET rt == portfolio.open_roundtrips[i]
                        IN  IF rt.ticker \in DOMAIN run.current_prices
                            THEN HeldShares(portfolio, rt.id)
                                   * run.current_prices[rt.ticker] * SlipDen
                            ELSE 0])])
            /\ portfolio' = [portfolio EXCEPT !.equity_history = after]
      /\ \A k \in (Len(portfolio.transaction_log) + 1)..Len(log) :
            log[k].reason # "backtest_end" => Len(before) = log[k].date - 1

\* C20. After Backtester.run, equity_history holds exactly one sample per
\* simulated trading day, in trading-day order, each recorded after that day's
\* exits and entries have been applied; record_equity only appends a sample and
\* changes nothing else in the ledger.
EquityHistory == []OneSamplePerDay /\ [][EquityStep]_vars

\* C20 witness: a finished run that traded, with one sample for each day and
\* the two days valued differently
EquityHistoryWitness ==
  /\ run.pc = "done"
  /\ Len(portfolio.equity_history) = MaxDays
  /\ Len(portfolio.transaction_log) >= 2
  /\ portfolio.equity_history[1].value # portfolio.equity_history[MaxDays].value


\* open positions whose ticker has no valid price in today's prices
Unpriced ==
  {i \in DOMAIN portfolio.open_roundtrips :
     portfolio.open_roundtrips[i].ticker \notin DOMAIN run.current_prices}

\* a statement of _process_day that runs with today's prices
WithTodaysPrices == run.pc \in {"exits", "signals", "entries", "equity"}

DelistedStep ==
  WithTodaysPrices =>
    /\ \A i \in Unpriced :
         LET rt == portfolio.open_roundtrips[i]
         IN  \* neither closed nor reduced
             /\ \E k \in DOMAIN portfolio'.open_roundtrips :
                  portfolio'.open_roundtrips[k] = rt
             \* not asked about, so not listed for exit and no peak recorded
             /\ run.pc = "exits" =>
                  /\ \A k \in DOMAIN run'.positions_to_exit :
                       run'.positions_to_exit[k].rt_id # rt.id
                  /\ exit_rules.type = "TrailingStopExit" =>
                       /\ rt.id \in DOMAIN exit_rules'.peak_prices
                            <=> rt.id \in DOMAIN exit_rules.peak_prices
                       /\ rt.id \in DOMAIN exit_rules.peak_prices =>
                            exit_rules'.peak_prices[rt.id] = exit_rules.peak_prices[rt.id]
    /\ run.pc = "equity" =>
         LET history == portfolio'.equity_history
             open == portfolio.open_roundtrips
         IN  /\ Len(history) = Len(portfolio.equity_history) + 1
             /\ history[Len(history)].date = run.day
             /\ history[Len(history)].value
                  = portfolio.cash
                    + SumSeq([i \in DOMAIN open |->
                                IF i \in Unpriced THEN 0
                                ELSE HeldShares(portfolio, open[i].id)
                                       * run.current_prices[open[i].ticker] * SlipDen])

\* C21. Delisted handling during the run: on a day when the ticker of an open
\* position has no valid price, the position is not closed or reduced, its exit
\* rule is not evaluated, and it adds zero to that day's recorded equity, which
\* is end-of-day cash plus remaining_shares * price summed over the open
\* positions that do have a price.
DelistedHeld == [][DelistedStep]_vars

\* C21 witness: on the last day a position held since the day before has no
\* price; the time-based rule closed the other position and not this one, and
\* the day's sample is cash plus nothing
DelistedHeldWitness ==
  /\ run.pc = "close_all"
  /\ exit_rules.type = "TimeBasedExit"
  /\ Len(portfolio.closed_roundtrips) >= 1
  /\ \E i \in Unpriced :
       portfolio.open_roundtrips[i].transactions[1].date < run.day
  /\ portfolio.equity_history[MaxDays].value = portfolio.cash
  /\ portfolio.equity_history[MaxDays].value < portfolio.equity_history[1].value


\* C22. End-of-run liquidation: when run() has finished, every position that
\* was still open has been force-closed with reason "backtest_end" at the last
\* available price of its ticker; a position is open after the run only when
\* its ticker has no price (here: none on the last trading day, whose valid
\* prices run.current_prices still holds).
EndOfRunLiquidation ==
  run.pc = "done" =>
    \A i \in DOMAIN portfolio.open_roundtrips :
      portfolio.open_roundtrips[i].ticker \notin DOMAIN run.current_prices


\* C23. Every firing exit decision returned by a constructible ExitRule, every
\* CompositeExitRule included, carries an exit_portion in (0, 1].
FiringPortionInRange ==
  Constructible(exit_rules) /\ decision.fires =>
    0 < decision.portion /\ decision.portion <= Full


\* place of a signal in the order of discovery: universe order, then the order
\* of the entry rules within a ticker
PlaceIn(seq, x) == CHOOSE k \in DOMAIN seq : seq[k] = x
Discovery(strategy, sig) ==
  LET rule == CHOOSE r \in Range(strategy.entry_rules) : r.signal_type = sig.signal_type
  IN  (PlaceIn(strategy.universe, sig.ticker) - 1) * Len(strategy.entry_rules)
        + PlaceIn(strategy.entry_rules, rule)

\* C24. generate_signals evaluates every entry rule for every universe ticker,
\* returns all emitted signals sorted by priority descending, and keeps signals
\* of equal priority in discovery order (universe order, then entry-rule order
\* within a ticker): the sort is stable.
SignalsSortedStable ==
  last.op = "generate_signals" =>
    LET signals == run.signals
        strategy == run.strategy
    IN  \* every emitted signal once, with its rule's priority, and no other
        /\ \A t \in Range(strategy.universe), r \in Range(strategy.entry_rules) :
             Cardinality({k \in DOMAIN signals :
                            /\ signals[k].ticker = t
                            /\ signals[k].signal_type = r.signal_type
                            /\ signals[k].priority = r.priority})
               = IF <<t, r.signal_type>> \in last.fires THEN 1 ELSE 0
        /\ Len(signals) = Cardinality(last.fires)
        /\ \A i, j \in DOMAIN signals :
             i < j =>
               /\ signals[i].priority >= signals[j].priority
               /\ signals[i].priority = signals[j].priority =>
                    Discovery(strategy, signals[i]) < Discovery(strategy, signals[j])

\* C24 witness: universe <<"B", "A">>; a signal discovered last is returned
\* first on its higher priority, and the equal-priority signals behind it keep
\* the order B before A and, within B, the entry-rule order
SignalsSortedStableWitness ==
  /\ last.op = "generate_signals"
  /\ run.strategy.universe = <<"B", "A">>
  /\ Len(run.signals) = 4
  /\ run.signals[1].ticker = "A" /\ run.signals[1].signal_type = "r3"
  /\ run.signals[2].ticker = "B" /\ run.signals[2].signal_type = "r1"
  /\ run.signals[3].ticker = "B" /\ run.signals[3].signal_type = "r2"
  /\ run.signals[4].ticker = "A" /\ run.signals[4].signal_type = "r1"
  /\ run.signals[1].priority > run.signals[2].priority


Evaluated == portfolio.open_roundtrips[decision.roundtrip]

\* (price - average_entry_price)/average_entry_price compared with a
\* percentage, for an average entry price cost/shares > 0
AvgPositive(rt) == average_entry_price(rt).num > 0 /\ average_entry_price(rt).den > 0
ChangeAtMost(rt, price, pct) ==
  LET avg == average_entry_price(rt)
  IN  (price * avg.den - avg.num) * PctDen <= pct * avg.num
ChangeAtLeast(rt, price, pct) ==
  LET avg == average_entry_price(rt)
  IN  (price * avg.den - avg.num) * PctDen >= pct * avg.num

\* a round trip without transactions has average_entry_price 0.0
StopLossGuard ==
  /\ average_entry_price(RoundTrip(<<0, 0>>, "A")).num = 0
  /\ \A price \in EvalPrices, date \in EvalDates :
       should_exit(StopLossExit(8), RoundTrip(<<0, 0>>, "A"), date, price)
         = NoExit(StopLossExit(8))

\* C26. StopLossExit(p).should_exit fires (portion 1.0, reason "stop_loss")
\* exactly when average_entry_price > 0 and
\* (price - average_entry_price)/average_entry_price <= -p, equality included;
\* it never fires when average_entry_price <= 0.
StopLoss ==
  /\ StopLossGuard
  /\ exit_rules.type = "StopLossExit" /\ decision.n > 0 =>
       LET met == /\ AvgPositive(Evaluated)
                  /\ ChangeAtMost(Evaluated, decision.price, -exit_rules.n)
       IN  /\ decision.fires <=> met
           /\ decision.fires => decision.portion = Full /\ decision.reason = "stop_loss"
           /\ ~decision.fires => decision.portion = 0 /\ decision.reason = ""

\* C26 witness: entered at 100 without costs, the 8% stop fired at 92, a loss
\* of exactly 8%, after it had not fired at 93
StopLossWitness ==
  /\ exit_rules.type = "StopLossExit"
  /\ decision.n = 2 /\ decision.fired = 1
  /\ decision.fires /\ decision.price = 92
  /\ QSame(average_entry_price(Evaluated), [num |-> 100, den |-> 1])


\* the date of the first transaction of a round trip the Portfolio built
FirstDate(rt) == rt.transactions[1].date

\* C27. TimeBasedExit(N).should_exit fires (portion 1.0, reason "time_exit")
\* exactly when the days between the evaluation date and the date of the round
\* trip's first transaction are >= N, whatever the price and whatever was added
\* later.
TimeExit ==
  exit_rules.type = "TimeBasedExit" /\ decision.n > 0 =>
    /\ decision.fires <=> decision.date - FirstDate(Evaluated) >= exit_rules.n
    /\ decision.fires => decision.portion = Full /\ decision.reason = "time_exit"
    /\ ~decision.fires => decision.portion = 0 /\ decision.reason = ""

\* C27 witness: a position opened on day 5 and added to on day 8 is closed by
\* the 30-day rule on day 35, exactly 30 days after the open, at a loss
TimeExitWitness ==
  /\ exit_rules.type = "TimeBasedExit"
  /\ decision.fires /\ decision.date = 35 /\ decision.price = 90
  /\ Len(Evaluated.transactions) = 2
  /\ FirstDate(Evaluated) = 5
  /\ Evaluated.transactions[2].date = 8
  /\ decision.date - FirstDate(Evaluated) = exit_rules.n


ProfitTargetDecision ==
  exit_rules.type = "ProfitTargetExit" /\ decision.n > 0 =>
    LET met == /\ AvgPositive(Evaluated)
               /\ ChangeAtLeast(Evaluated, decision.price, exit_rules.n)
    IN  /\ decision.fires <=> met
        /\ decision.fires =>
             decision.portion = exit_rules.portion /\ decision.reason = "profit_target"
        /\ ~decision.fires => decision.portion = 0 /\ decision.reason = ""

\* an evaluation leaves the rule as it was, and its answer is a function of the
\* price and the average entry price alone
ProfitTargetStep ==
  exit_rules.type = "ProfitTargetExit" =>
    /\ exit_rules' = exit_rules
    /\ \A i \in DOMAIN portfolio.open_roundtrips, date \in EvalDates :
         LET rt == portfolio.open_roundtrips[i]
             d == should_exit(exit_rules', rt, date, decision'.price)
         IN  QSame(average_entry_price(rt), average_entry_price(Evaluated'))
               => d.fires = decision'.fires /\ d.portion = decision'.portion

\* C28. ProfitTargetExit(target, portion).should_exit fires exactly when
\* average_entry_price > 0 and (price - average_entry_price)/average_entry_price
\* >= target, returning the configured portion and reason "profit_target"; the
\* decision depends only on the current price and the average entry price, so
\* it fires again on every later evaluation where the condition still holds.
ProfitTarget == []ProfitTargetDecision /\ [][ProfitTargetStep]_vars

\* C28 witness: entered at 100 without costs, the 20% target with portion 0.5
\* fired at 120, a gain of exactly 20%, and fired again at the next evaluation
ProfitTargetWitness ==
  /\ exit_rules.type = "ProfitTargetExit"
  /\ decision.n = 2 /\ decision.fired = 2
  /\ decision.price = 120 /\ decision.portion = Half
  /\ QSame(average_entry_price(Evaluated), [num |-> 100, den |-> 1])

\* C29: EntryRule.should_enter returns a Signal, carrying the calculated value
\* and the rule's priority, exactly when its calculation returns a value and
\* its condition holds for it. CompositeEntryRule.should_enter returns one
\* Signal exactly when every pair, in order, yields a value that satisfies its
\* condition, and it evaluates no pair after the first failing one. A missing
\* value yields no signal.
Satisfied(pair, data_provider) ==
  /\ data_provider[pair[1].type] # None
  /\ check(pair[2], data_provider[pair[1].type])

FirstFailing(pairs, data_provider) ==
  LET failing == {k \in 1..Len(pairs) : ~Satisfied(pairs[k], data_provider)}
  IN  IF failing = {} THEN Len(pairs)
      ELSE CHOOSE k \in failing : \A j \in failing : k <= j

ShouldEnterContract ==
  last.op = "should_enter" =>
    LET rule == last.rule
        data == last.data_provider
        pairs == IF rule.type = "EntryRule"
                 THEN <<(<<rule.calculation, rule.condition>>)>> ELSE rule.pairs
    IN  /\ ~last.signal.none <=> \A k \in 1..Len(pairs) : Satisfied(pairs[k], data)
        /\ last.calls = FirstFailing(pairs, data)
        /\ (\E k \in 1..Len(pairs) : data[pairs[k][1].type] = None) => last.signal.none
        /\ ~last.signal.none =>
             /\ last.signal.priority = rule.priority
             /\ last.signal.ticker = last.ticker
             /\ last.signal.signal_type = rule.signal_type
             /\ rule.type = "EntryRule" =>
                   last.signal.metadata.value = data[rule.calculation.type].value
             /\ rule.type = "CompositeEntryRule" =>
                   \A k \in 1..Len(pairs) :
                     last.signal.metadata[pairs[k][1].type] = data[pairs[k][1].type].value

\* a two-pair composite whose first pair has no value: the second is never
\* evaluated and there is no signal, though the second pair alone would pass
ShouldEnterContractWitness ==
  /\ last.op = "should_enter"
  /\ last.rule.type = "CompositeEntryRule"
  /\ Len(last.rule.pairs) = 2
  /\ last.data_provider[last.rule.pairs[1][1].type] = None
  /\ Satisfied(last.rule.pairs[2], last.data_provider)
  /\ last.calls = 1
  /\ last.signal.none

\* C30 (as stated): for every exit rule r, create_exit_rule(r.to_dict()) is a
\* rule of the same type with the same parameters, recursively through nested
\* composites (same sub-rule order and slot portions), and it returns the same
\* should_exit decision as r for every round trip, date and price.
RECURSIVE SameParameters(_, _)
SameParameters(a, b) ==
  /\ a.type = b.type
  /\ a.n = b.n
  /\ a.portion = b.portion
  /\ Len(a.rules) = Len(b.rules)
  /\ \A k \in DOMAIN a.rules :
       /\ a.rules[k].portion = b.rules[k].portion
       /\ SameParameters(a.rules[k].rule, b.rules[k].rule)

Verdict(d) == <<d.fires, d.portion, d.reason>>

Reconstructed == create_exit_rule(to_dict(exit_rules))

SameDecisionOn(i, date, price) ==
  Verdict(should_exit(Reconstructed, portfolio.open_roundtrips[i], date, price))
    = Verdict(should_exit(exit_rules, portfolio.open_roundtrips[i], date, price))

SerializationRoundTrip ==
  /\ Reconstructed # ValueError
  /\ SameParameters(Reconstructed, exit_rules)
  /\ \A i \in DOMAIN portfolio.open_roundtrips, date \in EvalDates, price \in EvalPrices :
       SameDecisionOn(i, date, price)

\* C30 (amended): the reconstructed rule has the same type and parameters,
\* recursively, and returns the same should_exit decision as r for every date
\* and price on every round trip for which r, or a TrailingStopExit nested in
\* it, has not yet tracked a peak price; tracked peaks are not serialized.
RECURSIVE TrackedIds(_)
TrackedIds(rule) ==
  DOMAIN rule.peak_prices
    \cup UNION {TrackedIds(rule.rules[k].rule) : k \in DOMAIN rule.rules}

SerializationRoundTripUntracked ==
  /\ Reconstructed # ValueError
  /\ SameParameters(Reconstructed, exit_rules)
  /\ TrackedIds(Reconstructed) = {}
  /\ \A i \in DOMAIN portfolio.open_roundtrips, date \in EvalDates, price \in EvalPrices :
       portfolio.open_roundtrips[i].id \notin TrackedIds(exit_rules) =>
         SameDecisionOn(i, date, price)

\* a nested composite whose trailing stop has tracked A at 150 and not B: the
\* reconstructed rule decides differently on A at 135 and the same on B
SerializationRoundTripUntrackedWitness ==
  /\ exit_rules.type = "CompositeExitRule"
  /\ exit_rules.rules[1].rule.type = "CompositeExitRule"
  /\ decision.n = 1
  /\ decision.price = 150
  /\ TrackedIds(exit_rules) = {portfolio.open_roundtrips[1].id}
  /\ ~SameDecisionOn(1, 10, 135)
  /\ SameDecisionOn(2, 10, 135)
  /\ Reconstructed # exit_rules

\* C31: get_earnings_data(ticker, as_of_date) only ever returns the most recent
\* earnings record dated strictly before as_of_date, and returns None when no
\* such record exists or when that record is more than 90 days older than
\* as_of_date.
Before(earnings, as_of_date) == {t \in DOMAIN earnings : t < Timestamp(as_of_date, 0)}

Latest(times) == CHOOSE t \in times : \A u \in times : u <= t

ReturnsLatestBefore ==
  last.op = "get_earnings_data" /\ ~last.ret.none =>
    /\ Before(last.earnings, last.as_of_date) # {}
    /\ last.ret.earnings_date = Latest(Before(last.earnings, last.as_of_date))
    /\ last.ret.earnings_date < Timestamp(last.as_of_date, 0)

NoLookAhead ==
  /\ ReturnsLatestBefore
  /\ last.op = "get_earnings_data" =>
       LET before == Before(last.earnings, last.as_of_date)
       IN  /\ before = {} => last.ret.none
           /\ before # {}
                /\ Timestamp(last.as_of_date, 0) - Latest(before) > StaleDays * DayParts
                => last.ret.none

\* C32: a reduce_position or close_position call that raises (id not among the
\* open round trips, more shares than remaining_shares, or a non-positive share
\* quantity) leaves cash, open_roundtrips, closed_roundtrips, transaction_log
\* and the round trip's own transactions unchanged.
LedgerKept(p, q) ==
  /\ SameLedger(p, q)
  /\ \A i \in DOMAIN q.open_roundtrips :
       p.open_roundtrips[i].transactions = q.open_roundtrips[i].transactions

MustRaise(id, shares) ==
  \/ id \notin OpenIds(portfolio)
  \/ shares > remaining_shares(RoundTripOf(portfolio, id))
  \/ shares <= 0

\* every call the client could make next
RaisingCallsKeepLedger ==
  \A id \in ApiIds, date \in ApiDates, price \in ApiPrices :
    /\ \A shares \in ApiShares \cup {-ShareScale} :
         LET r == reduce_position(portfolio, id, date, price, shares, "exit")
         IN  /\ MustRaise(id, shares) => Raised(r)
             /\ Raised(r) => LedgerKept(r.portfolio, portfolio)
    /\ LET r == close_position(portfolio, id, date, price, "exit")
       IN  /\ id \notin OpenIds(portfolio) => Raised(r)
           /\ Raised(r) => LedgerKept(r.portfolio, portfolio)

\* the call the client made
RaisingStep ==
  last'.op \in {"reduce_position", "close_position"} /\ Raised(last')
    => LedgerKept(portfolio', portfolio)

RaiseLeavesLedger == []RaisingCallsKeepLedger /\ [][RaisingStep]_vars

\* a reduce_position for more shares than the open round trip holds has raised
RaiseLeavesLedgerWitness ==
  /\ last.op = "reduce_position"
  /\ last.ret = "ValueError: Cannot exit"
  /\ Len(portfolio.open_roundtrips) = 1
  /\ Len(portfolio.transaction_log) = 2
  /\ portfolio.cash < StartDollars * Dollar

\* C33: every transaction recorded during a backtest run (entry, rule exit or
\* end-of-run close) is for a ticker that has a valid, positive close in the
\* price table on the transaction's date and is executed at that close; entry
\* signals for tickers without a price that day are dropped.
\* The day's lookup holds exactly the positive closes of the day's row.
LookupIsValidCloses ==
  \A row \in RunRows :
    LET current_prices == get_current_prices(Self, TRUE, row)
    IN  /\ \A t \in DOMAIN current_prices : row[t] > 0 /\ current_prices[t] = row[t]
        /\ \A t \in Range(run.strategy.universe) : row[t] > 0 => t \in DOMAIN current_prices
        /\ get_current_prices(Self, FALSE, row) = NoPrices

\* the transactions a step appends to the log
NewTransactions ==
  {portfolio'.transaction_log[k] :
     k \in (Len(portfolio.transaction_log) + 1)..Len(portfolio'.transaction_log)}

TradeAtClose ==
  /\ \A t \in NewTransactions :
       /\ t.date = run.day
       /\ t.ticker \in DOMAIN run.current_prices
       /\ t.price = run.current_prices[t.ticker]
       /\ t.price > 0
  \* the lookup of a day is replaced only by the next day's
  /\ run'.current_prices # run.current_prices =>
       run.pc = "prices" \/ (run.pc = "equity" /\ run'.current_prices = NoPrices)
  /\ run.pc = "prices" => run'.day = run.day
  \* signals for unpriced tickers never reach the sizer
  /\ run.pc = "entries" =>
       \A k \in DOMAIN run'.attempted :
         run'.attempted[k].ticker \in DOMAIN run.current_prices

NoTradeWithoutPrice == []LookupIsValidCloses /\ [][TradeAtClose]_vars

\* after the entry step: a signal for an unpriced ticker was dropped while
\* another was entered at the day's close
NoTradeWithoutPriceWitness ==
  /\ run.pc = "equity"
  /\ \E k \in DOMAIN run.signals : run.signals[k].ticker \notin DOMAIN run.current_prices
  /\ run.entered # <<>>
  /\ \E k \in DOMAIN portfolio.transaction_log :
       /\ portfolio.transaction_log[k].date = run.day
       /\ portfolio.transaction_log[k].transaction_type = "open"
       /\ portfolio.transaction_log[k].price
            = run.current_prices[portfolio.transaction_log[k].ticker]

\* C34: in the entry step a signal that cannot be taken (the sizer returns <= 0
\* shares or open_position refuses for insufficient cash) is skipped and the
\* remaining lower-priority signals are still attempted with the then-current
\* cash, whereas once the portfolio is at capacity no further signal is
\* attempted that day.
ValidSignals ==
  LET priced(sig) == sig.ticker \in DOMAIN run.current_prices
  IN  SelectSeq(run.signals, priced)

\* the entry cost of the one share the sizer of the run asks for
CostOfSignal(sig) ==
  EntryCostOf(portfolio, run.strategy.position_sizer.shares, run.current_prices[sig.ticker])

\* among the first k valid signals, those the step entered
EnteredAmong(k) == {j \in 1..k : ValidSignals[j] \in Range(run'.entered)}

\* cash and open positions when the k-th valid signal is reached
CashAt(k) ==
  portfolio.cash
    - SumSeq([j \in 1..(k - 1) |->
                IF j \in EnteredAmong(k - 1) THEN CostOfSignal(ValidSignals[j]) ELSE 0])
OpenAt(k) == Len(portfolio.open_roundtrips) + Cardinality(EnteredAmong(k - 1))

\* FixedShares answers 0 when shares * price exceeds the cash it is given
SizerGives(k) ==
  IF run.strategy.position_sizer.shares * run.current_prices[ValidSignals[k].ticker] * SlipDen
       > CashAt(k)
  THEN 0 ELSE run.strategy.position_sizer.shares

CanBeTaken(k) == SizerGives(k) > 0 /\ CostOfSignal(ValidSignals[k]) <= CashAt(k)

EntryStep ==
  run.pc = "entries" /\ run'.pc = "equity" =>
    /\ Len(run'.attempted) <= Len(ValidSignals)
    /\ run'.attempted = SubSeq(ValidSignals, 1, Len(run'.attempted))
    /\ \A k \in DOMAIN ValidSignals :
         /\ k <= Len(run'.attempted) <=> \A j \in 1..k : OpenAt(j) < portfolio.max_positions
         /\ k \in EnteredAmong(k) <=> k <= Len(run'.attempted) /\ CanBeTaken(k)
    /\ portfolio'.cash = CashAt(Len(ValidSignals) + 1)

SkipAndContinue == [][EntryStep]_vars

\* with a free slot and cash 9 after yesterday's entry, today's first signal
\* (close 10) got 0 shares from the sizer and the second (close 8) was entered
SkipAndContinueWitness ==
  /\ run.pc = "equity"
  /\ run.day = 2
  /\ Len(run.attempted) = 2
  /\ run.current_prices[run.attempted[1].ticker] * ShareScale * SlipDen
       > portfolio.cash + run.current_prices[run.attempted[2].ticker] * ShareScale * SlipDen
  /\ run.entered = <<run.attempted[2]>>
  /\ Len(portfolio.open_roundtrips) = 2
  /\ portfolio.transaction_cost.slippage_pct = 0

\* C35: the ledger and the entry step place no per-ticker limit: open_position
\* does not refuse a ticker that already has an open round trip, and each
\* accepted signal creates a separate round trip with a distinct id, so two
\* signals for the same ticker on one day (or a signal for a ticker already
\* held) yield concurrent round trips in that ticker when capacity and cash
\* allow.
HeldTickers == {portfolio.open_roundtrips[i].ticker : i \in DOMAIN portfolio.open_roundtrips}

\* open_position on a held ticker, at any close, succeeds whenever a slot is
\* free and the cash covers the cost, and adds a round trip of its own
HeldTickerNotRefused ==
  \A ticker \in HeldTickers, price \in {8, 10} :
    LET r == open_position(portfolio, ticker, run.day, price, ShareScale, StrategyRule)
    IN  Len(portfolio.open_roundtrips) < portfolio.max_positions
          /\ EntryCostOf(portfolio, ShareScale, price) <= portfolio.cash
        => /\ r.ret = "RoundTrip"
           /\ r.id \notin OpenIds(portfolio) \cup ClosedIds(portfolio)
           /\ Len(r.portfolio.open_roundtrips) = Len(portfolio.open_roundtrips) + 1
           /\ r.portfolio.open_roundtrips[Len(portfolio.open_roundtrips) + 1].ticker = ticker

DistinctIds ==
  /\ \A i, j \in DOMAIN portfolio.open_roundtrips :
       portfolio.open_roundtrips[i].id = portfolio.open_roundtrips[j].id => i = j
  /\ OpenIds(portfolio) \cap ClosedIds(portfolio) = {}

\* the entry step adds one round trip per entered signal, in order, held or not
OnePerSignal ==
  run.pc = "entries" /\ run'.pc = "equity" =>
    /\ Len(portfolio'.open_roundtrips)
         = Len(portfolio.open_roundtrips) + Len(run'.entered)
    /\ \A k \in DOMAIN run'.entered :
         portfolio'.open_roundtrips[Len(portfolio.open_roundtrips) + k].ticker
           = run'.entered[k].ticker
    /\ \A k \in DOMAIN run'.attempted :
         k \in EnteredAmong(k) <=> CanBeTaken(k)

NoPerTickerLimit ==
  [](HeldTickerNotRefused /\ DistinctIds) /\ [][OnePerSignal]_vars

\* two signals for the same ticker on one day were both entered: two open
\* round trips in that ticker, each with its own id
NoPerTickerLimitWitness ==
  /\ run.pc = "equity"
  /\ Len(run.entered) = 2
  /\ run.entered[1].ticker = run.entered[2].ticker
  /\ Len(portfolio.open_roundtrips) = 2
  /\ portfolio.open_roundtrips[1].ticker = portfolio.open_roundtrips[2].ticker
  /\ portfolio.open_roundtrips[1].id # portfolio.open_roundtrips[2].id
  /\ \A i \in 1..2 : portfolio.open_roundtrips[i].transactions[1].date = run.day

\* C36: in the exit step each open, priced round trip is evaluated once against
\* the pre-exit state and receives at most one exit transaction; a decision
\* with portion >= 0.9999 closes the whole position, a decision with
\* 0 < portion < 0.9999 sells exactly remaining_shares * portion and leaves the
\* round trip open with remaining_shares > 0; for portions in (0, 1] the step
\* never raises and never sells more than remaining_shares.
\* the decision on a round trip of the state before the step
DecisionOn(rt) == should_exit(exit_rules, rt, run.day, run.current_prices[rt.ticker])

PricedOpen ==
  {i \in DOMAIN portfolio.open_roundtrips :
     portfolio.open_roundtrips[i].ticker \in DOMAIN run.current_prices}

\* the transactions the step appended for a round trip
ExitsOf(id) == {t \in NewTransactions : t.roundtrip_id = id}

PortionsInRange ==
  \A i \in PricedOpen :
    DecisionOn(portfolio.open_roundtrips[i]).fires =>
      /\ DecisionOn(portfolio.open_roundtrips[i]).portion > 0
      /\ DecisionOn(portfolio.open_roundtrips[i]).portion <= Full

ExitStep ==
  run.pc = "exits" /\ PortionsInRange =>
    /\ run'.pc # "raised"
    /\ Cardinality(NewTransactions)
         = Len(portfolio'.transaction_log) - Len(portfolio.transaction_log)
    /\ \A i \in DOMAIN portfolio.open_roundtrips :
         LET rt == portfolio.open_roundtrips[i]
             before == remaining_shares(rt)
         IN  IF i \notin PricedOpen \/ ~DecisionOn(rt).fires
             THEN ExitsOf(rt.id) = {} /\ rt \in Range(portfolio'.open_roundtrips)
             ELSE
               /\ Cardinality(ExitsOf(rt.id)) = 1
               /\ \A t \in ExitsOf(rt.id) :
                    /\ t.transaction_type = "reduce"
                    /\ t.price = run.current_prices[rt.ticker]
                    /\ t.reason = DecisionOn(rt).reason
                    /\ t.shares <= before
                    /\ IF DecisionOn(rt).portion * 10000 >= 9999 * PortionDen
                       THEN /\ t.shares = before
                            /\ rt.id \in ClosedIds(portfolio')
                            /\ rt.id \notin OpenIds(portfolio')
                       ELSE /\ t.shares * PortionDen = before * DecisionOn(rt).portion
                            /\ rt.id \in OpenIds(portfolio')
                            /\ remaining_shares(RoundTripOf(portfolio', rt.id))
                                 = before - t.shares
                            /\ remaining_shares(RoundTripOf(portfolio', rt.id)) > 0

ExitExecution == [][ExitStep]_vars

\* an exit step in which the profit target sold half of each of two positions
\* entered at 8 and priced 10: one transaction each, both still open with half
\* a share
ExitExecutionWitness ==
  /\ run.pc = "signals"
  /\ Len(run.positions_to_exit) = 2
  /\ \A k \in 1..2 :
       /\ run.positions_to_exit[k].portion = Half
       /\ run.positions_to_exit[k].rt_id \in OpenIds(portfolio)
       /\ remaining_shares(RoundTripOf(portfolio, run.positions_to_exit[k].rt_id))
            = ShareScale \div 2
  /\ run.positions_to_exit[1].rt_id # run.positions_to_exit[2].rt_id

\* C37: when a round trip becomes closed, the sum of the P&L values returned by
\* all reduce_position/close_position calls made on it equals its realized_pnl
\* (total exit proceeds minus total entry costs), for every interleaving of
\* adds and partial reductions.
QPlus(a, b) == [num |-> a.num * b.den + b.num * a.den, den |-> a.den * b.den]

RECURSIVE QSum(_)
QSum(qs) == IF qs = <<>> THEN NoPnl ELSE QPlus(QSum(Tail(qs)), Head(qs))

ReturnedPnlIsRealized ==
  portfolio.closed_roundtrips # <<>> =>
    QSame(QSum(last.returned),
          [num |-> realized_pnl(portfolio.closed_roundtrips[1]), den |-> 1])

\* C38: with fractional shares enabled and positive slippage or commission,
\* whenever a cash-capped sizer (FixedDollarAmount, PercentPortfolio or
\* RiskParity with target >= available cash, or PercentAvailableCash(1.0))
\* allocates the whole available cash, the resulting open_position call is
\* refused because the entry cost exceeds cash: no position is opened for that
\* signal and cash is unchanged.
\* the sizer's answer for a signal, and whether it is worth all the cash
SizedFor(sig) ==
  ShareUnits(calculate_shares(run.strategy.position_sizer,
                              run.current_prices[sig.ticker], portfolio.cash,
                              calculate_portfolio_value(portfolio, run.current_prices),
                              portfolio))

AllocatesAllCash(sig) ==
  /\ run.strategy.position_sizer.type
       \in {"FixedDollarAmount", "PercentPortfolio", "RiskParity", "PercentAvailableCash"}
  /\ portfolio.cash > 0
  /\ SizedFor(sig) * run.current_prices[sig.ticker] * SlipDen = portfolio.cash

CostsPositive ==
  portfolio.transaction_cost.slippage_pct > 0 \/ portfolio.transaction_cost.commission > 0

AllInStep ==
  run.pc = "entries" /\ portfolio.fractional_shares /\ CostsPositive =>
    /\ \A k \in DOMAIN run'.attempted :
         AllocatesAllCash(run'.attempted[k]) => run'.attempted[k] \notin Range(run'.entered)
    /\ (\A k \in DOMAIN run'.attempted : AllocatesAllCash(run'.attempted[k]))
         => SameLedger(portfolio', portfolio)

EndOfRunCloses ==
  SelectSeq(portfolio.transaction_log, LAMBDA t : t.reason = "backtest_end")
ExitCostsAtEnd ==
  SumSeq([i \in DOMAIN EndOfRunCloses |->
            EndOfRunCloses[i].shares * EndOfRunCloses[i].price * SlipDen
              - EndOfRunCloses[i].net_amount])
LastSample == portfolio.equity_history[Len(portfolio.equity_history)]
RunOverNothingOpen == run.pc = "done" /\ portfolio.open_roundtrips = <<>>

\* C39 as stated: after Backtester.run returns with no position left open, the
\* final cash equals the value of the last equity_history sample.
FinalCashIsLastSample ==
  RunOverNothingOpen => portfolio.cash = LastSample.value

\* C39. After Backtester.run returns with no position left open, the last
\* equity_history sample is the one of the last trading day (none is recorded
\* after the end-of-run liquidation) and the final cash equals its value less
\* the slippage and commission charged on the end-of-run closes.
FinalCashIsLastSampleLessCosts ==
  RunOverNothingOpen =>
    /\ Len(portfolio.equity_history) = MaxDays
    /\ LastSample.date = MaxDays
    /\ portfolio.cash = LastSample.value - ExitCostsAtEnd

\* C39 witness: the run ended by closing a position under slippage, and the
\* cash it leaves is below the last sample
FinalCashIsLastSampleLessCostsWitness ==
  /\ RunOverNothingOpen
  /\ EndOfRunCloses # <<>>
  /\ ExitCostsAtEnd > 0
  /\ portfolio.cash < LastSample.value


\* a partial profit target ahead of a trailing stop
TargetThenTrail ==
  CompositeExitRule(<<Slot(ProfitTargetExit(20, Half), Half),
                      Slot(TrailingStopExit(10), Full)>>)

ShortCircuitStep ==
  LET d == decision'
      rt == portfolio.open_roundtrips[d.roundtrip]
      sub(k) == should_exit(exit_rules.rules[k].rule, rt, d.date, d.price)
      firing == {k \in DOMAIN exit_rules.rules : sub(k).fires}
      first == CHOOSE k \in firing : \A j \in firing : k <= j
      evaluated(k) == firing = {} \/ k <= first
  IN  exit_rules.type = "CompositeExitRule" =>
        /\ exit_rules'.type = "CompositeExitRule"
        /\ Len(exit_rules'.rules) = Len(exit_rules.rules)
        /\ \A k \in DOMAIN exit_rules.rules :
             /\ exit_rules'.rules[k].portion = exit_rules.rules[k].portion
             /\ exit_rules'.rules[k].rule
                  = IF evaluated(k) THEN sub(k).rule ELSE exit_rules.rules[k].rule

\* C40. Inside a CompositeExitRule the sub-rules listed after the first firing
\* sub-rule are not evaluated for that call: they are left as they were, so a
\* TrailingStopExit placed after a sub-rule that fires does not update its peak
\* for that day's price; the sub-rules listed before the firing one and the
\* firing one, or all of them when none fires, are evaluated and are left in
\* the state their own should_exit produces.
CompositeShortCircuit == [][ShortCircuitStep]_vars

\* C40 witness: the trailing stop behind a partial profit target recorded the
\* peak of 119 on a call where the target did not fire, and still holds it
\* after a call at 150 on the same position, on which the target fired
CompositeShortCircuitWitness ==
  /\ SameParameters(exit_rules, TargetThenTrail)
  /\ decision.n = MaxEvals
  /\ decision.fires /\ decision.reason = "profit_target" /\ decision.price = 150
  /\ decision.fired = 1
  /\ Evaluated.id \in DOMAIN exit_rules.rules[2].rule.peak_prices
  /\ QSame(exit_rules.rules[2].rule.peak_prices[Evaluated.id], [num |-> 119, den |-> 1])
====
